---- MODULE Spec2Model ----
(***************************************************************************)
(* Heatmap placement engine of RoomGEN.Legacy/kitchen_core/heatmaps:       *)
(* GridMap (grid.py), CollisionMask (masking.py), the static layers        *)
(* (layers.py), the dynamic fields (fields.py) and the beam search of      *)
(* HeatmapSolver (solver.py).                                              *)
(*                                                                         *)
(* Numbers.  One cell is 1 cm, as in the source.  The source computes the  *)
(* fields in float64; here every field value and score is an integer       *)
(* number of 1/Unit (thousandths), the layer weights are tenths and the    *)
(* soft mask is in tenths, so that 0.5, 0.3 and the weights 0.2 .. 1.0 are *)
(* exact.  exp() is replaced by its first-order expansion, which is within *)
(* 3e-5 of it on the rooms of the model (distance <= 7, sigma >= 50).      *)
(***************************************************************************)
EXTENDS Integers, Sequences, FiniteSets, TLC

\* ------------------------------------------------------------------ bounds
MaxRoomWidth == 5
MaxWishlist == 2
MaxBeamWidth == 2
MaxCandidates == 2
MaxSolves == 3
MaxMaskWidth == 4
MaxGridWidth == 4
MaxTopK == 3
MaxOutside == 2
MaxSwing == 2
MaxEmitters == 3
MaxFieldWidth == 4
MaxGap == 130
MaxStart == 2
MaxHeapSolves == 2
MaxPairs == 4

\* fixed-point denominator of every field value and score
Unit == 1000

Max(a, b) == IF a >= b THEN a ELSE b
Min(a, b) == IF a <= b THEN a ELSE b

Cells(n) == 0 .. (n - 1)

\* a numpy array: a function on the cells whose values are computed once
Array(f) == f @@ <<>>

\* Python's a[i:j] on a sequence of length n: a negative index counts from the
\* end, and both ends are clipped to [0, n].
PyIndex(n, i) == IF i < 0 THEN Max(0, i + n) ELSE Min(i, n)
PySlice(n, i, j) == { c \in Cells(n) : PyIndex(n, i) <= c /\ c < PyIndex(n, j) }

RECURSIVE SumOver(_, _)
SumOver(f, S) ==
    IF S = {} THEN 0
    ELSE LET c == CHOOSE x \in S : TRUE IN f[c] + SumOver(f, S \ {c})

\* ------------------------------------------------------------------ grid.py
\* GridMap: data is a function on the cells 0 .. room_width-1
GridMap_create(room_width, initial_value) ==
    [data |-> Array([c \in Cells(room_width) |-> initial_value]), room_width |-> room_width]

GridMap_zeros(room_width) == GridMap_create(room_width, 0)

GridMap_ones(room_width, value) == GridMap_create(room_width, value)

\* amplitude * exp(-0.5 * ((i - center) / sigma)^2), in 1/Unit
gaussian_at(i, center_cm, sigma_cm, amplitude) ==
    LET d2 == (i - center_cm) * (i - center_cm)
        s2 == 2 * sigma_cm * sigma_cm
    IN  IF d2 >= s2 THEN 0
        ELSE amplitude * Unit - ((amplitude * Unit * d2) \div s2)

gaussian_field(room_width, center_cm, sigma_cm, amplitude) ==
    Array([i \in Cells(room_width) |-> gaussian_at(i, center_cm, sigma_cm, amplitude)])

add_gaussian(grid, center_cm, sigma_cm, amplitude) ==
    [data |-> Array([i \in Cells(grid.room_width) |->
                 grid.data[i] + gaussian_at(i, center_cm, sigma_cm, amplitude)]),
     room_width |-> grid.room_width]

apply_penalty_range(grid, start_cm, end_cm, value) ==
    LET start == Max(0, start_cm)
        end == Min(grid.room_width, end_cm)
        hit == PySlice(grid.room_width, start, end)
    IN  [data |-> Array([i \in Cells(grid.room_width) |->
                     IF i \in hit THEN grid.data[i] + value ELSE grid.data[i]]),
         room_width |-> grid.room_width]

apply_mask(grid, mask, penalty) ==
    [data |-> Array([i \in Cells(grid.room_width) |->
                 IF mask[i] > 0 THEN penalty ELSE grid.data[i]]),
     room_width |-> grid.room_width]

\* a.data + b.data, cell by cell
add_data(grid, data) ==
    [data |-> Array([i \in Cells(grid.room_width) |-> grid.data[i] + data[i]]),
     room_width |-> grid.room_width]

\* np.convolve(data, ones(item_width), mode='valid'): the window sums, one for
\* every start 0 .. room_width - item_width
WindowSum(data, p, item_width) == SumOver(data, p .. (p + item_width - 1))

convolve_valid(grid, item_width) ==
    Array([p \in 0 .. (grid.room_width - item_width) |-> WindowSum(grid.data, p, item_width)])

\* the first index of the minimum
argmin(scores) ==
    CHOOSE p \in DOMAIN scores :
        /\ \A q \in DOMAIN scores : scores[q] >= scores[p]
        /\ \A q \in DOMAIN scores : scores[q] = scores[p] => p <= q

\* np.argmax: the first index of the maximum
argmax(scores) ==
    CHOOSE p \in DOMAIN scores :
        /\ \A q \in DOMAIN scores : scores[q] <= scores[p]
        /\ \A q \in DOMAIN scores : scores[q] = scores[p] => p <= q

find_best_position(grid, item_width) ==
    IF item_width >= grid.room_width THEN 0
    ELSE argmax(convolve_valid(grid, item_width))

\* np.argsort and np.argpartition leave the order of equal scores open, so
\* the indices of the m highest scores of S, highest first, are any of these
RECURSIVE top_indices(_, _, _)
top_indices(scores, S, m) ==
    IF m = 0 \/ S = {} THEN { <<>> }
    ELSE UNION { { <<b>> \o rest : rest \in top_indices(scores, S \ {b}, m - 1) } :
                   b \in { p \in S : \A q \in S : scores[q] <= scores[p] } }

position_scores(scores, indices) ==
    [j \in 1 .. Len(indices) |-> <<indices[j], scores[indices[j]]>>] \o <<>>

\* top_k_of that returns the k highest in ascending order
top_k_of_unsorted(scores, k) ==
    IF Cardinality(DOMAIN scores) <= k
    THEN { position_scores(scores, indices) :
             indices \in top_indices(scores, DOMAIN scores, Cardinality(DOMAIN scores)) }
    ELSE { position_scores(scores, [j \in 1 .. k |-> indices[k + 1 - j]]) :
             indices \in top_indices(scores, DOMAIN scores, k) }

\* "if len(scores) <= k" all the indices, sorted; else the k highest, sorted
top_k_of(scores, k) ==
    { position_scores(scores, indices) :
        indices \in top_indices(scores, DOMAIN scores,
                        IF Cardinality(DOMAIN scores) <= k
                        THEN Cardinality(DOMAIN scores) ELSE k) }

\* find_top_k_positions without the case of an item as wide as the room
find_top_k_positions_unguarded(grid, item_width, k) ==
    top_k_of(convolve_valid(grid, item_width), k)

\* the lists of (position, score) that the call may return
find_top_k_positions(grid, item_width, k) ==
    IF item_width >= grid.room_width
    THEN { << <<0, SumOver(grid.data, Cells(grid.room_width))>> >> }
    ELSE top_k_of(convolve_valid(grid, item_width), k)

\* --------------------------------------------------------------- masking.py
\* CollisionMask: hard_mask in {0, 1}, soft_mask in tenths
CollisionMask_create(room_width) ==
    [hard_mask |-> Array([c \in Cells(room_width) |-> 0]),
     soft_mask |-> Array([c \in Cells(room_width) |-> 0]),
     room_width |-> room_width]

door_swing_cm_default == 45
\* 0.5, in tenths
door_swing_penalty_default == 5

\* mark_occupied that leaves the last cell of the range free
mark_occupied_short(mask, start_cm, end_cm, include_door_swing, door_swing_cm, door_swing_penalty) ==
    LET start == Max(0, start_cm)
        end == Min(mask.room_width, end_cm)
        occupied == PySlice(mask.room_width, start, end - 1)
        swing == PySlice(mask.room_width, Max(0, start - door_swing_cm),
                         Min(mask.room_width, end + door_swing_cm))
    IN  [hard_mask |-> Array([c \in Cells(mask.room_width) |->
                          IF c \in occupied THEN 1 ELSE mask.hard_mask[c]]),
         soft_mask |-> Array([c \in Cells(mask.room_width) |->
                          IF include_door_swing /\ c \in swing
                          THEN mask.soft_mask[c] + door_swing_penalty
                          ELSE mask.soft_mask[c]]),
         room_width |-> mask.room_width]

\* mark_occupied that writes the masks of the new item over the old ones
mark_occupied_overwrite(mask, start_cm, end_cm, include_door_swing, door_swing_cm, door_swing_penalty) ==
    LET start == Max(0, start_cm)
        end == Min(mask.room_width, end_cm)
        occupied == PySlice(mask.room_width, start, end)
        swing == PySlice(mask.room_width, Max(0, start - door_swing_cm),
                         Min(mask.room_width, end + door_swing_cm))
    IN  [hard_mask |-> Array([c \in Cells(mask.room_width) |->
                          IF c \in occupied THEN 1 ELSE mask.hard_mask[c]]),
         soft_mask |-> Array([c \in Cells(mask.room_width) |->
                          IF include_door_swing /\ c \in swing /\ c \notin occupied
                          THEN door_swing_penalty ELSE 0]),
         room_width |-> mask.room_width]

mark_occupied(mask, start_cm, end_cm, include_door_swing, door_swing_cm, door_swing_penalty) ==
    LET start == Max(0, start_cm)
        end == Min(mask.room_width, end_cm)
        occupied == PySlice(mask.room_width, start, end)
        swing_start == Max(0, start - door_swing_cm)
        swing_end == Min(mask.room_width, end + door_swing_cm)
        swing == PySlice(mask.room_width, swing_start, swing_end)
    IN  [hard_mask |-> Array([c \in Cells(mask.room_width) |->
                          IF c \in occupied THEN 1 ELSE mask.hard_mask[c]]),
         soft_mask |-> Array([c \in Cells(mask.room_width) |->
                          IF include_door_swing /\ c \in swing
                          THEN mask.soft_mask[c] + door_swing_penalty
                          ELSE mask.soft_mask[c]]),
         room_width |-> mask.room_width]

\* 0.3, in tenths
mark_utility_zone(mask, center_cm, radius_cm) ==
    LET start == Max(0, center_cm - radius_cm)
        end == Min(mask.room_width, center_cm + radius_cm)
        zone == PySlice(mask.room_width, start, end)
    IN  [hard_mask |-> mask.hard_mask,
         soft_mask |-> Array([c \in Cells(mask.room_width) |->
                          IF c \in zone THEN mask.soft_mask[c] + 3 ELSE mask.soft_mask[c]]),
         room_width |-> mask.room_width]

\* is_valid_placement without the test of the bounds
is_valid_placement_unbounded(mask, start_cm, width) ==
    SumOver(mask.hard_mask, PySlice(mask.room_width, start_cm, start_cm + width)) = 0

is_valid_placement(mask, start_cm, width) ==
    LET end == start_cm + width
    IN  IF start_cm < 0 \/ end > mask.room_width THEN FALSE
        ELSE SumOver(mask.hard_mask, PySlice(mask.room_width, start_cm, end)) = 0

get_penalty(mask, start_cm, width) ==
    LET end == Min(mask.room_width, start_cm + width)
        start == Max(0, start_cm)
    IN  SumOver(mask.soft_mask, PySlice(mask.room_width, start, end))

get_blocking_mask(mask) == mask.hard_mask

\* ---------------------------------------------------------------- layers.py
\* A Room is [width, doors, windows, utilities]; a door or window is
\* [wall, x, width], a utility is [type, x].
RECURSIVE arch_doors(_, _)
arch_doors(grid, doors) ==
    IF doors = <<>> THEN grid
    ELSE LET door == Head(doors)
         IN  arch_doors(IF door.wall = "back"
                        THEN apply_penalty_range(grid, door.x, door.x + door.width, -1100 * Unit)
                        ELSE grid,
                        Tail(doors))

RECURSIVE arch_windows(_, _)
arch_windows(grid, windows) ==
    IF windows = <<>> THEN grid
    ELSE LET window == Head(windows)
         IN  arch_windows(IF window.wall = "back"
                          THEN apply_penalty_range(grid, window.x, window.x + window.width, -500 * Unit)
                          ELSE grid,
                          Tail(windows))

create_architecture_layer(room) ==
    arch_windows(arch_doors(GridMap_ones(room.width, 100 * Unit), room.doors), room.windows)

RECURSIVE install_utils(_, _, _)
install_utils(grid, utilities, utility_type) ==
    IF utilities = <<>> THEN grid
    ELSE LET util == Head(utilities)
         IN  install_utils(IF util.type = utility_type
                           THEN add_gaussian(grid, util.x, 50, 100)
                           ELSE grid,
                           Tail(utilities), utility_type)

\* "if np.max(grid.data) == 0": no utility of the type was found
flat_if_none(grid) ==
    IF (\A c \in Cells(grid.room_width) : grid.data[c] <= 0)
       /\ (\E d \in Cells(grid.room_width) : grid.data[d] = 0)
    THEN GridMap_ones(grid.room_width, 50 * Unit)
    ELSE grid

create_installation_layer(room, utility_type) ==
    flat_if_none(install_utils(GridMap_zeros(room.width), room.utilities, utility_type))

MONOLITH_TYPES == {"fridge", "pantry", "oven_tower"}

create_ergonomics_layer(room, item_type) ==
    LET grid == GridMap_zeros(room.width)
        center == room.width \div 2
    IN  IF item_type \in MONOLITH_TYPES
        THEN add_gaussian(
                 apply_penalty_range(
                     apply_penalty_range(grid, 0, 120, 80 * Unit),
                     room.width - 120, room.width, 80 * Unit),
                 center, 100, -30)
        ELSE apply_penalty_range(
                 apply_penalty_range(
                     add_gaussian(grid, center, 150, 50),
                     0, 30, -50 * Unit),
                 room.width - 30, room.width, -50 * Unit)

\* the door positions the traffic layer collects, in the order of the doors
RECURSIVE door_positions(_, _)
door_positions(room_width, doors) ==
    IF doors = <<>> THEN <<>>
    ELSE LET door == Head(doors)
             here == IF door.wall = "back" THEN <<door.x + door.width \div 2>>
                     ELSE IF door.wall = "right" THEN <<room_width - 50>>
                     ELSE IF door.wall = "left" THEN <<50>>
                     ELSE <<>>
         IN  here \o door_positions(room_width, Tail(doors))

RECURSIVE traffic_zones(_, _)
traffic_zones(grid, positions) ==
    IF positions = <<>> THEN grid
    ELSE traffic_zones(
             apply_penalty_range(grid, Head(positions) - 60, Head(positions) + 60, -200 * Unit),
             Tail(positions))

create_traffic_layer(room) ==
    traffic_zones(GridMap_zeros(room.width), door_positions(room.width, room.doors))

RECURSIVE light_windows(_, _)
light_windows(grid, windows) ==
    IF windows = <<>> THEN grid
    ELSE LET window == Head(windows)
         IN  light_windows(IF window.wall = "back"
                           THEN add_gaussian(grid, window.x + window.width \div 2, 100, 80)
                           ELSE grid,
                           Tail(windows))

create_light_layer(room) == light_windows(GridMap_zeros(room.width), room.windows)

\* LAYER_WEIGHTS, in tenths
LAYER_WEIGHTS ==
    [sink_cabinet |->
        [architecture |-> 10, installation_water |-> 10, ergonomics |-> 5,
         traffic |-> 3, light |-> 8],
     stove_cabinet |->
        [architecture |-> 10, installation_gas |-> 8, ergonomics |-> 6,
         traffic |-> 4, light |-> 2],
     fridge |->
        [architecture |-> 10, installation_water |-> 0, ergonomics |-> 8,
         traffic |-> 3, light |-> 0],
     dishwasher |->
        [architecture |-> 10, installation_water |-> 9, ergonomics |-> 4,
         traffic |-> 5, light |-> 0],
     pantry |->
        [architecture |-> 10, installation_water |-> 0, ergonomics |-> 7,
         traffic |-> 2, light |-> 0],
     default |->
        [architecture |-> 10, installation_water |-> 3, ergonomics |-> 5,
         traffic |-> 3, light |-> 3]]

get_layer_weights(item_type) ==
    IF item_type \in DOMAIN LAYER_WEIGHTS THEN LAYER_WEIGHTS[item_type]
    ELSE LAYER_WEIGHTS["default"]

\* ---------------------------------------------------------------- fields.py
ATTRACTIONS ==
    ( <<"sink_cabinet", "dishwasher">> :> [sigma_cm |-> 60, amplitude |-> 150]
   @@ <<"sink", "dishwasher">> :> [sigma_cm |-> 60, amplitude |-> 150]
   @@ <<"stove_cabinet", "hood">> :> [sigma_cm |-> 30, amplitude |-> 200]
   @@ <<"stove", "hood">> :> [sigma_cm |-> 30, amplitude |-> 200]
   @@ <<"sink_cabinet", "drawer_cabinet">> :> [sigma_cm |-> 80, amplitude |-> 50]
   @@ <<"sink_cabinet", "prep">> :> [sigma_cm |-> 80, amplitude |-> 50]
   @@ <<"stove_cabinet", "oven_tower">> :> [sigma_cm |-> 100, amplitude |-> 40] )

REPULSIONS ==
    ( <<"stove_cabinet", "fridge">> :> [sigma_cm |-> 80, amplitude |-> -100]
   @@ <<"stove", "fridge">> :> [sigma_cm |-> 80, amplitude |-> -100]
   @@ <<"stove_cabinet", "window">> :> [sigma_cm |-> 50, amplitude |-> -300]
   @@ <<"stove", "window">> :> [sigma_cm |-> 50, amplitude |-> -300]
   @@ <<"fridge", "stove_cabinet">> :> [sigma_cm |-> 80, amplitude |-> -100]
   @@ <<"fridge", "stove">> :> [sigma_cm |-> 80, amplitude |-> -100]
   @@ <<"fridge", "pantry">> :> [sigma_cm |-> 60, amplitude |-> -30]
   @@ <<"fridge", "oven_tower">> :> [sigma_cm |-> 60, amplitude |-> -30] )

\* a FieldEmitter is [position, width, item_type]
FieldEmitter(position, width, item_type) ==
    [position |-> position, width |-> width, item_type |-> item_type]

emitter_center(emitter) == emitter.position + emitter.width \div 2

_normalize_type(item_type) ==
    CASE item_type = "sink_cabinet" -> "sink"
      [] item_type = "stove_cabinet" -> "stove"
      [] item_type = "drawer_cabinet" -> "prep"
      [] item_type = "base_cabinet" -> "prep"
      [] OTHER -> item_type

\* TABLE.get(key1) or TABLE.get(key2), as a sequence of zero or one entry
table_lookup(table, source_type, target_type) ==
    LET key1 == <<source_type, target_type>>
        key2 == <<_normalize_type(source_type), _normalize_type(target_type)>>
    IN  IF key1 \in DOMAIN table THEN <<table[key1]>>
        ELSE IF key2 \in DOMAIN table THEN <<table[key2]>>
        ELSE <<>>

\* the Gaussian of the entry found, if any, around the centre of the emitter
field_of_params(params, emitter, room_width) ==
    IF params = <<>> THEN <<>>
    ELSE <<add_gaussian(GridMap_zeros(room_width), emitter_center(emitter),
                        params[1].sigma_cm, params[1].amplitude)>>

get_attraction_for(emitter, target_type, room_width) ==
    field_of_params(table_lookup(ATTRACTIONS, emitter.item_type, target_type),
                    emitter, room_width)

get_repulsion_for(emitter, target_type, room_width) ==
    field_of_params(table_lookup(REPULSIONS, emitter.item_type, target_type),
                    emitter, room_width)

\* grid.data += field.data when there is a field
add_optional(grid, field) ==
    IF field = <<>> THEN grid ELSE add_data(grid, field[1].data)

get_combined_field_for(emitter, target_type, room_width) ==
    add_optional(
        add_optional(GridMap_zeros(room_width),
                     get_attraction_for(emitter, target_type, room_width)),
        get_repulsion_for(emitter, target_type, room_width))

\* the loop over placed_emitters, after the first n of them
RECURSIVE dynamic_after(_, _, _, _)
dynamic_after(placed_emitters, n, target_type, room_width) ==
    IF n = 0 THEN GridMap_zeros(room_width)
    ELSE add_data(dynamic_after(placed_emitters, n - 1, target_type, room_width),
                  get_combined_field_for(placed_emitters[n], target_type, room_width).data)

\* a loop that keeps the field of the last emitter only
compute_dynamic_fields_overwrite(placed_emitters, target_type, room_width) ==
    IF placed_emitters = <<>> THEN GridMap_zeros(room_width)
    ELSE get_combined_field_for(placed_emitters[Len(placed_emitters)], target_type, room_width)

compute_dynamic_fields(placed_emitters, target_type, room_width) ==
    dynamic_after(placed_emitters, Len(placed_emitters), target_type, room_width)

\* ---------------------------------------------------------------- solver.py
ANCHOR_TYPES ==
    {"sink_cabinet", "sink", "stove_cabinet", "stove", "fridge", "pantry", "oven_tower"}

FILLER_TYPES == {"drawer_cabinet", "base_cabinet", "prep", "landing", "dishwasher"}

\* a wishlist item is [type, width] or, without a width, [type]
item_width_of(item) == IF "width" \in DOMAIN item THEN item.width ELSE 60

\* list.sort / sorted: the stable order of the indices of keys, ascending
InsertStable(before, keys, n) ==
    LET at == Cardinality({ j \in 1 .. (n - 1) : keys[before[j]] <= keys[n] })
    IN  SubSeq(before, 1, at) \o <<n>> \o SubSeq(before, at + 1, n - 1)

RECURSIVE StableOrder(_, _)
StableOrder(keys, n) ==
    IF n = 0 THEN <<>> ELSE InsertStable(StableOrder(keys, n - 1), keys, n)

InOrder(seq, order) == [j \in 1 .. Len(seq) |-> seq[order[j]]] \o <<>>

SortedBy(seq, keys) == InOrder(seq, StableOrder(keys, Len(seq)))

anchor_priority ==
    <<"sink_cabinet", "sink", "stove_cabinet", "stove", "fridge", "pantry", "oven_tower">>

priority_index(item_type) ==
    IF \E j \in DOMAIN anchor_priority : anchor_priority[j] = item_type
    THEN (CHOOSE j \in DOMAIN anchor_priority : anchor_priority[j] = item_type) - 1
    ELSE 99

IsAnchor(item) == item.type \in ANCHOR_TYPES
IsFiller(item) == item.type \in FILLER_TYPES

\* the anchors as they stand in the wishlist
sort_by_priority_unsorted(anchor_items) == anchor_items

sort_by_priority(anchor_items) ==
    SortedBy(anchor_items,
             [j \in 1 .. Len(anchor_items) |-> priority_index(anchor_items[j].type)])

sorted_anchors(wl) == sort_by_priority(SelectSeq(wl, IsAnchor))

PlacementCandidate(position, score, item_type, width) ==
    [position |-> position, score |-> score, item_type |-> item_type, width |-> width]

initial_solution(room_width) ==
    [placements |-> <<>>,
     total_score |-> 0,
     collision_mask |-> CollisionMask_create(room_width),
     emitters |-> <<>>]

\* HeatmapSolver.__init__: the static layers of the room
make_static_layers(room) ==
    [architecture |-> create_architecture_layer(room),
     installation_water |-> create_installation_layer(room, "water"),
     installation_gas |-> create_installation_layer(room, "gas"),
     ergonomics |-> create_ergonomics_layer(room, "generic"),
     traffic |-> create_traffic_layer(room),
     light |-> create_light_layer(room)]

\* the loop over weights.items(): layer * weight is added for the layers of
\* the weight table that exist and have weight > 0 (weights in tenths)
RECURSIVE weighted_layers(_, _, _, _)
weighted_layers(layers, weights, names, c) ==
    IF names = {} THEN 0
    ELSE LET layer_name == CHOOSE x \in names : TRUE
         IN  (IF layer_name \in DOMAIN layers /\ weights[layer_name] > 0
              THEN (layers[layer_name].data[c] * weights[layer_name]) \div 10
              ELSE 0)
             + weighted_layers(layers, weights, names \ {layer_name}, c)

\* combined = architecture.copy(), then the weighted layers
static_field(layers, room_width, weights) ==
    [data |-> Array([c \in Cells(room_width) |->
                 layers["architecture"].data[c]
                 + weighted_layers(layers, weights, DOMAIN weights, c)]),
     room_width |-> room_width]

\* "if emitters: combined.data += dynamic.data"
with_dynamic(combined, emitters, item_type) ==
    IF emitters # <<>>
    THEN add_data(combined,
                  compute_dynamic_fields(emitters, item_type, combined.room_width).data)
    ELSE combined

\* "combined.data -= mask.soft_mask * 100" (soft_mask in tenths)
minus_soft(combined, soft_mask) ==
    [data |-> Array([c \in Cells(combined.room_width) |->
                 combined.data[c] - soft_mask[c] * 10 * Unit]),
     room_width |-> combined.room_width]

combined_field(layers, room_width, item_type, mask, emitters) ==
    minus_soft(
        apply_mask(
            with_dynamic(static_field(layers, room_width, get_layer_weights(item_type)),
                         emitters, item_type),
            get_blocking_mask(mask), -10000 * Unit),
        mask.soft_mask)

\* valid_candidates without the filter: every top position is a candidate
valid_candidates_unfiltered(top_positions, mask, item_type, item_width) ==
    [j \in 1 .. Len(top_positions) |->
        PlacementCandidate(top_positions[j][1], top_positions[j][2], item_type, item_width)]
    \o <<>>

\* the filter of the top positions
valid_candidates(top_positions, mask, item_type, item_width) ==
    LET Keep(ps) == is_valid_placement(mask, ps[1], item_width) /\ ps[2] > -5000 * Unit
        Cand(ps) == PlacementCandidate(ps[1], ps[2], item_type, item_width)
        RECURSIVE Filter(_)
        Filter(j) == IF j > Len(top_positions) THEN <<>>
                     ELSE (IF Keep(top_positions[j]) THEN <<Cand(top_positions[j])>> ELSE <<>>)
                          \o Filter(j + 1)
    IN  Filter(1)

\* the lists of candidates that the call may return
_generate_candidates(layers, room_width, k, item_type, item_width, mask, emitters) ==
    { valid_candidates(top_positions, mask, item_type, item_width) :
        top_positions \in
            find_top_k_positions(combined_field(layers, room_width, item_type, mask, emitters),
                                 item_width, k) }

\* a branch that marks the mask and leaves the emitters of the parent
child_solution_no_emitter(solution, cand) ==
    [placements |-> Append(solution.placements, cand),
     total_score |-> solution.total_score + cand.score,
     collision_mask |->
        mark_occupied(solution.collision_mask, cand.position, cand.position + cand.width,
                      TRUE, door_swing_cm_default, door_swing_penalty_default),
     emitters |-> solution.emitters]

\* the body of the loop over the candidates of one parent
child_solution(solution, cand) ==
    [placements |-> Append(solution.placements, cand),
     total_score |-> solution.total_score + cand.score,
     collision_mask |->
        mark_occupied(solution.collision_mask, cand.position, cand.position + cand.width,
                      TRUE, door_swing_cm_default, door_swing_penalty_default),
     emitters |-> Append(solution.emitters,
                         FieldEmitter(cand.position, cand.width, cand.item_type))]

\* the children of the n-th solution of the beam, each with n, the index of
\* its parent
children_of(solution, n, candidates) ==
    [j \in 1 .. Len(candidates) |->
        [solution |-> child_solution(solution, candidates[j]), parent |-> n]] \o <<>>

\* new_solutions before the sort, after the loop over the first n solutions
\* of bm: the lists that the calls of _generate_candidates may lead to
RECURSIVE new_solutions(_, _, _, _, _, _)
new_solutions(layers, room_width, k, bm, n, item) ==
    IF n = 0 THEN { <<>> }
    ELSE { before \o children_of(bm[n], n, candidates) :
             before \in new_solutions(layers, room_width, k, bm, n - 1, item),
             candidates \in _generate_candidates(layers, room_width, k, item.type,
                                item_width_of(item), bm[n].collision_mask, bm[n].emitters) }

\* [:n]
first_n(seq, n) == SubSeq(seq, 1, PyIndex(Len(seq), n))

\* prune that cuts one solution late
prune_late(children, beam_width) ==
    first_n(SortedBy(children,
                     [j \in 1 .. Len(children) |-> -children[j].solution.total_score]),
            beam_width + 1)

\* sort(key=total_score, reverse=True) and [:BEAM_WIDTH]
prune(children, beam_width) ==
    first_n(SortedBy(children,
                     [j \in 1 .. Len(children) |-> -children[j].solution.total_score]),
            beam_width)

\* a loop that skips an anchor no solution has room for
next_beam_skip(bm, expanded) == IF expanded = <<>> THEN bm ELSE expanded

\* "beam = self._expand_beam(beam, item)" in the loop of solve: the beam
\* before the call is dropped, whatever the call returns
next_beam(bm, expanded) == expanded

\* max(beam, key=total_score): the first solution of the highest score
best_of(bm) ==
    bm[CHOOSE i \in 1 .. Len(bm) :
          /\ \A j \in 1 .. Len(bm) : bm[j].total_score <= bm[i].total_score
          /\ \A j \in 1 .. (i - 1) : bm[j].total_score < bm[i].total_score]

anchor_volume(p) ==
    [x |-> p.position,
     width |-> p.width,
     function |-> p.item_type,
     metadata |-> [height |-> IF p.item_type \in MONOLITH_TYPES THEN 215 ELSE 85,
                   is_monolith |-> p.item_type \in MONOLITH_TYPES,
                   heatmap_score |-> p.score]]

\* _candidates_to_volumes that leaves the last placement out
_candidates_to_volumes_but_last(placements) ==
    [j \in 1 .. (Len(placements) - 1) |-> anchor_volume(placements[j])] \o <<>>

_candidates_to_volumes(placements) ==
    [j \in 1 .. Len(placements) |-> anchor_volume(placements[j])] \o <<>>

filler_volume(x, width, function) ==
    [x |-> x, width |-> width, function |-> function,
     metadata |-> [height |-> 85, is_monolith |-> FALSE]]

\* the while loop of _fill_range and the filler panel after it
RECURSIVE fill_loop(_, _, _)
fill_loop(current_x, gap_remaining, dishwasher) ==
    IF gap_remaining >= 30
    THEN LET chosen_width == IF 60 <= gap_remaining THEN 60
                             ELSE IF 45 <= gap_remaining THEN 45 ELSE 30
         IN  IF dishwasher /\ chosen_width = 60
             THEN <<filler_volume(current_x, 60, "dishwasher")>>
                  \o fill_loop(current_x + chosen_width, gap_remaining - chosen_width, FALSE)
             ELSE <<filler_volume(current_x, chosen_width, "drawer_cabinet")>>
                  \o fill_loop(current_x + chosen_width, gap_remaining - chosen_width, dishwasher)
    ELSE IF 0 < gap_remaining /\ gap_remaining < 30
         THEN <<filler_volume(current_x, gap_remaining, "filler")>>
         ELSE <<>>

\* _fill_range without the filler panel of the remainder
_fill_range_no_panel(start, end, available_fillers) ==
    SelectSeq(fill_loop(start, end - start,
                        \E j \in DOMAIN available_fillers : available_fillers[j].type = "dishwasher"),
              LAMBDA v : v.function # "filler")

_fill_range(start, end, available_fillers) ==
    fill_loop(start, end - start,
              \E j \in DOMAIN available_fillers : available_fillers[j].type = "dishwasher")

RECURSIVE fill_between(_, _, _)
fill_between(anchors_sorted, i, fillers) ==
    IF i >= Len(anchors_sorted) THEN <<>>
    ELSE LET gap_start == anchors_sorted[i].x + anchors_sorted[i].width
             gap_end == anchors_sorted[i + 1].x
         IN  (IF gap_end - gap_start >= 30
              THEN _fill_range(gap_start, gap_end, fillers) ELSE <<>>)
             \o fill_between(anchors_sorted, i + 1, fillers)

sorted_by_x(volumes) == SortedBy(volumes, [j \in 1 .. Len(volumes) |-> volumes[j].x])

\* _fill_gaps_classical after "anchors_sorted = sorted(...)"
fill_sorted(room_width, anchors_sorted, fillers) ==
    LET first_x == anchors_sorted[1].x
        last == anchors_sorted[Len(anchors_sorted)]
        last_end == last.x + last.width
    IN  (IF first_x > 30 THEN _fill_range(0, first_x, fillers) ELSE <<>>)
        \o fill_between(anchors_sorted, 1, fillers)
        \o (IF room_width - last_end > 30
            THEN _fill_range(last_end, room_width, fillers) ELSE <<>>)

\* _fill_gaps_classical that fills the whole wall when there is no anchor
_fill_gaps_classical_whole(room_width, anchor_volumes, filler_items) ==
    IF anchor_volumes = <<>> THEN _fill_range(0, room_width, filler_items)
    ELSE fill_sorted(room_width, sorted_by_x(anchor_volumes), filler_items)

_fill_gaps_classical(room_width, anchor_volumes, filler_items) ==
    IF anchor_volumes = <<>> THEN <<>>
    ELSE fill_sorted(room_width, sorted_by_x(anchor_volumes), filler_items)

\* a solve that fills the gaps whatever skip_fillers says
all_volumes_of_filled(room_width, anchor_volumes, filler_items, skip) ==
    sorted_by_x(anchor_volumes
                \o _fill_gaps_classical(room_width, anchor_volumes, filler_items))

\* a solve that returns the anchors followed by the fillers, without the sort
all_volumes_of_unsorted(room_width, anchor_volumes, filler_items, skip) ==
    IF skip THEN anchor_volumes
    ELSE anchor_volumes \o _fill_gaps_classical(room_width, anchor_volumes, filler_items)

\* solve after "anchor_volumes = ...": the fillers and the sort by x
all_volumes_of(room_width, anchor_volumes, filler_items, skip) ==
    sorted_by_x(IF skip THEN anchor_volumes
                ELSE anchor_volumes
                     \o _fill_gaps_classical(room_width, anchor_volumes, filler_items))

\* solve from "best = max(...)" to the sorted all_volumes
solve_volumes(room_width, bm, filler_items, skip) ==
    all_volumes_of(room_width, _candidates_to_volumes(best_of(bm).placements),
                   filler_items, skip)

\* debug_data is a dict: a set of <<key, value>>; d[key] = value replaces
dict_set(d, key, value) == { kv \in d : kv[1] # key } \cup { <<key, value>> }

\* ------------------------------------------- solver.py, the L-shape solver
\* grid.py: CORNER_SIZES
CORNER_SIZES == ("blind" :> 65 @@ "diagonal" :> 87 @@ "carousel" :> 90)

\* a corner table read without the corner type: the blind corner for all
corner_size_of_blind(corner_type) == CORNER_SIZES["blind"]

\* CORNER_SIZES.get(corner_type, 65)
corner_size_of(corner_type) ==
    IF corner_type \in DOMAIN CORNER_SIZES THEN CORNER_SIZES[corner_type] ELSE 65

\* a or b on lengths; None is 0 here, and 0 is as false as None
py_or(a, b) == IF a # 0 THEN a ELSE b

ARM_PREFERENCES ==
    ( "fridge" :> "B_END" @@ "pantry" :> "B_END" @@ "oven_tower" :> "B_END"
   @@ "sink_cabinet" :> "WATER" @@ "sink" :> "WATER" @@ "dishwasher" :> "WATER"
   @@ "stove_cabinet" :> "GAS" @@ "stove" :> "GAS" )

\* the utilities of an arm, in the coordinates of the arm
arm_utilities(room, corner_size, arm) ==
    IF arm = "A"
    THEN LET utilities == SelectSeq(room.utilities, LAMBDA u : u.x >= corner_size)
         IN  [j \in 1 .. Len(utilities) |->
                 [utilities[j] EXCEPT !.x = utilities[j].x - corner_size]] \o <<>>
    ELSE SelectSeq(room.utilities, LAMBDA u : u.x < corner_size)

\* the room of one arm: the wall of the arm, the doors and windows of the room
mock_room(room, arm_width, adjusted_utilities) ==
    [width |-> arm_width, doors |-> room.doors, windows |-> room.windows,
     utilities |-> adjusted_utilities]

\* HeatmapSolver(room, beam_width, candidates_per_item) as a value
HeatmapSolver(solver_room, beam_width, candidates_per_item) ==
    [room |-> solver_room, static_layers |-> make_static_layers(solver_room),
     BEAM_WIDTH |-> beam_width, CANDIDATES_PER_ITEM |-> candidates_per_item,
     debug_data |-> {}]

_create_arm_solver(room, corner_size, arm_a_length, arm_b_length, beam_width, arm) ==
    HeatmapSolver(mock_room(room, IF arm = "A" THEN arm_a_length ELSE arm_b_length,
                            arm_utilities(room, corner_size, arm)),
                  beam_width, 3)

\* LShapeHeatmapSolver.__init__, once corner_size and the arm lengths are known
LShape_with(room, corner_type, beam_width, corner_size, arm_a_length, arm_b_length) ==
    [room |-> room, corner_type |-> corner_type, BEAM_WIDTH |-> beam_width,
     corner_size |-> corner_size, arm_a_length |-> arm_a_length,
     arm_b_length |-> arm_b_length,
     _arm_a_solver |-> _create_arm_solver(room, corner_size, arm_a_length, arm_b_length,
                                          beam_width, "A"),
     _arm_b_solver |-> _create_arm_solver(room, corner_size, arm_a_length, arm_b_length,
                                          beam_width, "B")]

LShapeHeatmapSolver(room, corner_type, beam_width) ==
    LShape_with(room, corner_type, beam_width, corner_size_of(corner_type),
                room.width - corner_size_of(corner_type),
                py_or(room.wall_b_length, room.length) - corner_size_of(corner_type))

\* sum(i.get('width', 60) for i in items)
RECURSIVE widths_used(_, _)
widths_used(items, n) ==
    IF n = 0 THEN 0 ELSE item_width_of(items[n]) + widths_used(items, n - 1)

\* the balance on the lengths of the arms, without the widths given to them
arm_of_lengths(lsolver, item, arm_a, arm_b) ==
    LET has(type, on_a) ==
            \E j \in DOMAIN lsolver.room.utilities :
                /\ lsolver.room.utilities[j].type = type
                /\ (lsolver.room.utilities[j].x >= lsolver.corner_size) = on_a
        preference == IF item.type \in DOMAIN ARM_PREFERENCES
                      THEN ARM_PREFERENCES[item.type] ELSE "BALANCE"
    IN  CASE preference = "B_END" -> "B"
          [] preference = "WATER" -> IF has("water", TRUE) THEN "A" ELSE "B"
          [] preference = "GAS" ->
                IF has("gas", TRUE) \/ (~has("gas", TRUE) /\ ~has("gas", FALSE))
                THEN "A" ELSE "B"
          [] OTHER -> IF lsolver.arm_a_length > lsolver.arm_b_length THEN "A" ELSE "B"

\* the arm, "A" or "B", that the loop of _distribute_items gives an item to
arm_of(lsolver, item, arm_a, arm_b) ==
    LET has(type, on_a) ==
            \E j \in DOMAIN lsolver.room.utilities :
                /\ lsolver.room.utilities[j].type = type
                /\ (lsolver.room.utilities[j].x >= lsolver.corner_size) = on_a
        preference == IF item.type \in DOMAIN ARM_PREFERENCES
                      THEN ARM_PREFERENCES[item.type] ELSE "BALANCE"
    IN  CASE preference = "B_END" -> "B"
          [] preference = "WATER" -> IF has("water", TRUE) THEN "A" ELSE "B"
          [] preference = "GAS" ->
                IF has("gas", TRUE) \/ (~has("gas", TRUE) /\ ~has("gas", FALSE))
                THEN "A" ELSE "B"
          [] OTHER ->
                IF lsolver.arm_a_length - widths_used(arm_a, Len(arm_a))
                     > lsolver.arm_b_length - widths_used(arm_b, Len(arm_b))
                THEN "A" ELSE "B"

\* _distribute_items after the first n items of the wishlist
RECURSIVE distributed(_, _, _)
distributed(lsolver, wl, n) ==
    IF n = 0 THEN [arm_a |-> <<>>, arm_b |-> <<>>]
    ELSE LET before == distributed(lsolver, wl, n - 1)
         IN  IF arm_of(lsolver, wl[n], before.arm_a, before.arm_b) = "A"
             THEN [before EXCEPT !.arm_a = Append(before.arm_a, wl[n])]
             ELSE [before EXCEPT !.arm_b = Append(before.arm_b, wl[n])]

_distribute_items(lsolver, wl) == distributed(lsolver, wl, Len(wl))

\* a volume in the coordinates of the room; z and the new metadata are set on
\* copies of the volume and of its metadata
transformed_volume(vol, x, z, axis, arm) ==
    [x |-> x, z |-> z, width |-> vol.width, function |-> vol.function,
     metadata |-> [axis |-> axis, arm |-> arm] @@ vol.metadata]

_transform_arm_a_volumes(corner_size, volumes) ==
    [j \in 1 .. Len(volumes) |->
        transformed_volume(volumes[j], volumes[j].x + corner_size, 0, "X", "A")] \o <<>>

\* arm B turned like arm A: the local position on x, and z = 0
_transform_arm_b_volumes_as_a(corner_size, volumes) ==
    [j \in 1 .. Len(volumes) |->
        transformed_volume(volumes[j], volumes[j].x + corner_size, 0, "Z", "B")] \o <<>>

_transform_arm_b_volumes(corner_size, volumes) ==
    [j \in 1 .. Len(volumes) |->
        transformed_volume(volumes[j], 0, volumes[j].x + corner_size, "Z", "B")] \o <<>>

\* grid.py: LShapeGridMap.local_to_global_position, the pair (x, z)
local_to_global_position(corner_size, arm, local_pos) ==
    IF arm = "A" THEN <<corner_size + local_pos, 0>> ELSE <<0, corner_size + local_pos>>

\* grid.py: LShapeGridMap.global_to_arm_position; "ValueError" is the raise
global_to_arm_position(corner_size, x, z) ==
    IF z = 0 /\ x >= corner_size THEN <<"A", x - corner_size>>
    ELSE IF x = 0 /\ z >= corner_size THEN <<"B", z - corner_size>>
    ELSE "ValueError"

\* the dict that LShapeHeatmapSolver.solve returns
lshape_result(lsolver, arm_a_result, arm_b_result) ==
    LET arm_a_volumes == _transform_arm_a_volumes(lsolver.corner_size, arm_a_result.volumes)
        arm_b_volumes == _transform_arm_b_volumes(lsolver.corner_size, arm_b_result.volumes)
    IN  [volumes |-> arm_a_volumes \o arm_b_volumes,
         corner |-> [type |-> lsolver.corner_type, size |-> lsolver.corner_size],
         arm_a |-> [start |-> lsolver.corner_size, end |-> lsolver.room.width,
                    volumes |-> arm_a_volumes],
         arm_b |-> [start |-> lsolver.corner_size,
                    end |-> py_or(lsolver.room.wall_b_length, lsolver.room.length),
                    volumes |-> arm_b_volumes],
         debug |-> [arm_a_debug |-> arm_a_result.debug, arm_b_debug |-> arm_b_result.debug]]

\* ------------------------------------------- solver.py, objects by address
\* A heap maps addresses to cells: an array (the data of a GridMap, the
\* hard_mask or soft_mask of a CollisionMask), a list (placements, emitters) or
\* an object whose fields hold addresses (GridMap, CollisionMask,
\* PartialSolution). A new cell takes the first free address.
FreeAddr(h) ==
    CHOOSE a \in 1 .. (Cardinality(DOMAIN h) + 1) :
        a \notin DOMAIN h /\ \A b \in 1 .. (a - 1) : b \in DOMAIN h

Alloc(h, cell) == [heap |-> (FreeAddr(h) :> cell) @@ h, ref |-> FreeAddr(h)]

Store(h, a, cell) == [h EXCEPT ![a] = cell]

\* the objects at an address, as values
grid_at(h, a) == [data |-> h[h[a].data], room_width |-> h[a].room_width]

mask_at(h, a) ==
    [hard_mask |-> h[h[a].hard_mask], soft_mask |-> h[h[a].soft_mask],
     room_width |-> h[a].room_width]

solution_at(h, a) ==
    [placements |-> h[h[a].placements],
     total_score |-> h[a].total_score,
     collision_mask |-> mask_at(h, h[a].collision_mask),
     emitters |-> h[h[a].emitters]]

solutions_at(h, solution_refs) ==
    [j \in 1 .. Len(solution_refs) |-> solution_at(h, solution_refs[j])] \o <<>>

\* the cells of a GridMap and of a PartialSolution
grid_cells(h, a) == {a, h[a].data}

solution_cells(h, a) ==
    {a, h[a].placements, h[a].emitters, h[a].collision_mask,
     h[h[a].collision_mask].hard_mask, h[h[a].collision_mask].soft_mask}

\* the heap without the cells that neither the layers nor the solutions reach
collected(h, layer_refs, solution_refs) ==
    LET live == UNION ({ grid_cells(h, layer_refs[name]) : name \in DOMAIN layer_refs }
                       \cup { solution_cells(h, solution_refs[j]) : j \in DOMAIN solution_refs })
    IN  [a \in live |-> h[a]]

\* a GridMap of the given data, as a new object
new_grid(h, grid) ==
    Alloc(Alloc(h, grid.data).heap,
          [data |-> Alloc(h, grid.data).ref, room_width |-> grid.room_width])

\* the static layers of a new solver, one GridMap after the other; names is
\* the set of layers still to build
RECURSIVE layers_in_heap(_, _, _, _)
layers_in_heap(h, layer_refs, layers, names) ==
    IF names = {} THEN [heap |-> h, refs |-> layer_refs]
    ELSE LET name == CHOOSE x \in names : TRUE
         IN  layers_in_heap(new_grid(h, layers[name]).heap,
                            (name :> new_grid(h, layers[name]).ref) @@ layer_refs,
                            layers, names \ {name})

\* GridMap.copy that hands out the GridMap itself
GridMap_copy_itself(h, a) == [heap |-> h, ref |-> a]

\* GridMap.copy: a new GridMap over a copy of the data
GridMap_copy(h, a) == new_grid(h, grid_at(h, a))

\* CollisionMask.copy that keeps the two arrays of the original
CollisionMask_copy_shared(h, a) ==
    Alloc(h, [hard_mask |-> h[a].hard_mask, soft_mask |-> h[a].soft_mask,
              room_width |-> h[a].room_width])

\* CollisionMask.copy: a new mask over copies of both arrays
CollisionMask_copy(h, a) ==
    LET hard == Alloc(h, h[h[a].hard_mask])
        soft == Alloc(hard.heap, h[h[a].soft_mask])
    IN  Alloc(soft.heap, [hard_mask |-> hard.ref, soft_mask |-> soft.ref,
                          room_width |-> h[a].room_width])

\* PartialSolution.copy that keeps the placements list of the original
PartialSolution_copy_shared(h, a) ==
    LET mask == CollisionMask_copy(h, h[a].collision_mask)
        emitters == Alloc(mask.heap, h[h[a].emitters])
    IN  Alloc(emitters.heap,
              [placements |-> h[a].placements, total_score |-> h[a].total_score,
               collision_mask |-> mask.ref, emitters |-> emitters.ref])

\* PartialSolution.copy: copies of the two lists and of the mask
PartialSolution_copy(h, a) ==
    LET placements == Alloc(h, h[h[a].placements])
        mask == CollisionMask_copy(placements.heap, h[a].collision_mask)
        emitters == Alloc(mask.heap, h[h[a].emitters])
    IN  Alloc(emitters.heap,
              [placements |-> placements.ref, total_score |-> h[a].total_score,
               collision_mask |-> mask.ref, emitters |-> emitters.ref])

\* the initial solution of solve, as a new object
new_initial_solution(h, room_width) ==
    LET placements == Alloc(h, <<>>)
        hard == Alloc(placements.heap, CollisionMask_create(room_width).hard_mask)
        soft == Alloc(hard.heap, CollisionMask_create(room_width).soft_mask)
        mask == Alloc(soft.heap, [hard_mask |-> hard.ref, soft_mask |-> soft.ref,
                                  room_width |-> room_width])
        emitters == Alloc(mask.heap, <<>>)
    IN  Alloc(emitters.heap,
              [placements |-> placements.ref, total_score |-> 0,
               collision_mask |-> mask.ref, emitters |-> emitters.ref])

\* "grid.data += data": the array of the GridMap at g is written in place
add_in_place(h, g, data) ==
    Store(h, h[g].data, Array([c \in DOMAIN data |-> h[h[g].data][c] + data[c]]))

\* "for layer_name, weight in weights.items(): combined.data += layer.data * weight"
RECURSIVE add_weighted_layers(_, _, _, _, _)
add_weighted_layers(h, combined, layer_refs, weights, names) ==
    IF names = {} THEN h
    ELSE LET layer_name == CHOOSE x \in names : TRUE
         IN  add_weighted_layers(
                IF layer_name \in DOMAIN layer_refs /\ weights[layer_name] > 0
                THEN add_in_place(h, combined,
                        [c \in DOMAIN h[h[layer_refs[layer_name]].data] |->
                            (h[h[layer_refs[layer_name]].data][c] * weights[layer_name]) \div 10])
                ELSE h,
                combined, layer_refs, weights, names \ {layer_name})

\* "if emitters: combined.data += dynamic.data"
add_dynamic(h, combined, emitters, item_type) ==
    IF emitters # <<>>
    THEN add_in_place(h, combined,
             compute_dynamic_fields(emitters, item_type, h[combined].room_width).data)
    ELSE h

\* combined.apply_mask(...): self.data becomes a new array
apply_mask_rebind(h, combined, hard_mask) ==
    LET masked == Alloc(h, apply_mask(grid_at(h, combined), hard_mask, -10000 * Unit).data)
    IN  Store(masked.heap, combined, [h[combined] EXCEPT !.data = masked.ref])

\* "combined.data -= mask.soft_mask * 100", in place
minus_soft_in_place(h, combined, soft_mask) ==
    Store(h, h[combined].data, minus_soft(grid_at(h, combined), soft_mask).data)

\* the steps of _generate_candidates on the GridMap "combined"
combined_from(copied, layer_refs, item_type, mask, emitters) ==
    [heap |-> minus_soft_in_place(
                  apply_mask_rebind(
                      add_dynamic(
                          add_weighted_layers(copied.heap, copied.ref, layer_refs,
                              get_layer_weights(item_type),
                              DOMAIN get_layer_weights(item_type)),
                          copied.ref, emitters, item_type),
                      copied.ref, get_blocking_mask(mask)),
                  copied.ref, mask.soft_mask),
     ref |-> copied.ref]

\* _generate_candidates up to the top positions: the heap it leaves and the
\* GridMap "combined"
combined_in_heap(h, layer_refs, item_type, mask, emitters) ==
    combined_from(GridMap_copy(h, layer_refs["architecture"]), layer_refs, item_type,
                  mask, emitters)

\* mask.mark_occupied(...) on the mask at m: both arrays are written in place
mark_occupied_in_place(h, m, marked) ==
    Store(Store(h, h[m].hard_mask, marked.hard_mask), h[m].soft_mask, marked.soft_mask)

\* the body of the loop over the candidates, on the copy new_sol
branch_on(copied, cand) ==
    LET h == copied.heap
        new_sol == copied.ref
        h1 == Store(h, h[new_sol].placements, Append(h[h[new_sol].placements], cand))
        h2 == Store(h1, new_sol, [h1[new_sol] EXCEPT !.total_score = @ + cand.score])
        h3 == mark_occupied_in_place(h2, h2[new_sol].collision_mask,
                  mark_occupied(mask_at(h2, h2[new_sol].collision_mask), cand.position,
                                cand.position + cand.width, TRUE,
                                door_swing_cm_default, door_swing_penalty_default))
    IN  [heap |-> Store(h3, h3[new_sol].emitters,
                        Append(h3[h3[new_sol].emitters],
                               FieldEmitter(cand.position, cand.width, cand.item_type))),
         ref |-> new_sol]

\* new_sol = solution.copy() and the body of the loop
branch(h, solution, cand) == branch_on(PartialSolution_copy(h, solution), cand)

\* new_solutions.sort(...) and [:BEAM_WIDTH], on references
pruned_refs(h, solution_refs, beam_width) ==
    first_n(SortedBy(solution_refs,
                     [j \in 1 .. Len(solution_refs) |-> -h[solution_refs[j]].total_score]),
            beam_width)

\* ------------------------------------------------------------ state machine
VARIABLES
    room,                 \* HeatmapSolver.room
    static_layers,        \* HeatmapSolver._static_layers
    BEAM_WIDTH,           \* HeatmapSolver.BEAM_WIDTH
    CANDIDATES_PER_ITEM,  \* HeatmapSolver.CANDIDATES_PER_ITEM
    debug_data,           \* HeatmapSolver.debug_data
    pc,                   \* "idle" between two calls of solve, "anchors" in its loop
    wishlist,             \* the arguments of the call of solve in progress
    skip_fillers,
    anchors,              \* the sorted anchors the loop has not placed yet
    fillers,
    beam,
    lineage,              \* lineage[i]: index of the parent of beam[i] in the beam before
    unpruned,             \* len(new_solutions) of the last _expand_beam, before the cut
    emptied,              \* an _expand_beam of this call has returned an empty beam
    returned,             \* the calls of solve that have returned, in order
    heap,                 \* the arrays, lists and objects of a solve, by address
    refs,                 \* the references that the solver and its running call hold
    fn_arg,               \* the GridMap or CollisionMask a single method is called on
    fn_call               \* that call: the method, its arguments and its result

vars == <<room, static_layers, BEAM_WIDTH, CANDIDATES_PER_ITEM, debug_data, pc,
          wishlist, skip_fillers, anchors, fillers, beam, lineage, unpruned, emptied,
          returned, heap, refs, fn_arg, fn_call>>

heap_vars == <<heap, refs>>

solver_vars == <<room, static_layers, BEAM_WIDTH, CANDIDATES_PER_ITEM>>

fn_vars == <<fn_arg, fn_call>>

solve_vars == <<debug_data, pc, wishlist, skip_fillers, anchors, fillers, beam, lineage,
                unpruned, emptied, returned>>

\* the rooms: a bare wall; a wall with a window, water and gas and a door in
\* the right wall; a wall with a door in its first three cells
RoomShapes ==
    { [doors |-> <<>>, windows |-> <<>>, utilities |-> <<>>],
      [doors |-> <<[wall |-> "right", x |-> 0, width |-> 90]>>,
       windows |-> <<[wall |-> "back", x |-> 2, width |-> 1]>>,
       utilities |-> <<[type |-> "water", x |-> 1], [type |-> "gas", x |-> 3]>>],
      [doors |-> <<[wall |-> "back", x |-> 0, width |-> 3]>>,
       windows |-> <<>>, utilities |-> <<>>] }

Rooms ==
    { [width |-> w, doors |-> sh.doors, windows |-> sh.windows, utilities |-> sh.utilities] :
        w \in (MaxRoomWidth - 1) .. MaxRoomWidth, sh \in RoomShapes }

\* the items of the wishlists: an anchor without a width (60 by default, wider
\* than every room here), anchors of widths 2 and 3, and a filler
Items ==
    { [type |-> "sink_cabinet"],
      [type |-> "stove_cabinet", width |-> 2],
      [type |-> "fridge", width |-> 3],
      [type |-> "dishwasher", width |-> 60] }

RECURSIVE SeqsUpTo(_, _)
SeqsUpTo(S, n) ==
    IF n = 0 THEN { <<>> }
    ELSE { <<>> } \cup { <<e>> \o q : e \in S, q \in SeqsUpTo(S, n - 1) }

Wishlists == SeqsUpTo(Items, MaxWishlist)

NoSolver ==
    /\ room = <<>>
    /\ static_layers = <<>>
    /\ BEAM_WIDTH = 0
    /\ CANDIDATES_PER_ITEM = 0

NoSolve ==
    /\ debug_data = {}
    /\ pc = "idle"
    /\ wishlist = <<>>
    /\ skip_fillers = FALSE
    /\ anchors = <<>>
    /\ fillers = <<>>
    /\ beam = <<>>
    /\ lineage = <<>>
    /\ unpruned = 0
    /\ emptied = FALSE
    /\ returned = <<>>

\* no solve runs on a heap
NoHeap ==
    /\ heap = <<>>
    /\ refs = <<>>

NoCall ==
    /\ fn_arg = <<>>
    /\ fn_call = <<>>

\* HeatmapSolver(room, beam_width, candidates_per_item)
Init ==
    /\ room \in Rooms
    /\ static_layers = make_static_layers(room)
    /\ BEAM_WIDTH \in 1 .. MaxBeamWidth
    /\ CANDIDATES_PER_ITEM \in 1 .. MaxCandidates
    /\ NoSolve
    /\ NoHeap
    /\ NoCall

\* solve, up to the loop over the anchors; calls: how many calls the solver takes
SolveBegin(wishlists, calls) ==
    /\ pc = "idle"
    /\ Len(returned) < calls
    /\ \E wl \in wishlists, skip \in BOOLEAN :
          /\ wishlist' = wl
          /\ skip_fillers' = skip
          /\ anchors' = sorted_anchors(wl)
          /\ fillers' = SelectSeq(wl, IsFiller)
    /\ beam' = <<initial_solution(room.width)>>
    /\ lineage' = <<0>>
    /\ unpruned' = 0
    /\ emptied' = FALSE
    /\ pc' = "anchors"
    /\ UNCHANGED <<heap_vars, solver_vars, debug_data, returned, fn_vars>>

\* one iteration of the loop: beam = self._expand_beam(beam, item)
ExpandBeam ==
    /\ pc = "anchors"
    /\ anchors # <<>>
    /\ \E children \in new_solutions(static_layers, room.width, CANDIDATES_PER_ITEM,
                                     beam, Len(beam), Head(anchors)) :
          \E kept \in { next_beam([j \in 1 .. Len(beam) |-> [solution |-> beam[j], parent |-> j]],
                                  prune(children, BEAM_WIDTH)) } :
             /\ beam' = [j \in 1 .. Len(kept) |-> kept[j].solution]
             /\ lineage' = [j \in 1 .. Len(kept) |-> kept[j].parent]
             /\ unpruned' = Len(children)
             /\ emptied' = (emptied \/ children = <<>>)
    /\ anchors' = Tail(anchors)
    /\ UNCHANGED <<heap_vars, solver_vars, debug_data, pc, wishlist, skip_fillers, fillers,
                   returned, fn_vars>>

\* the return of solve; its locals end with the call
Return(volumes) ==
    /\ returned' = Append(returned,
          [wishlist |-> wishlist, skip_fillers |-> skip_fillers, emptied |-> emptied,
           volumes |-> volumes, debug |-> debug_data'])
    /\ pc' = "idle"
    /\ wishlist' = <<>>
    /\ skip_fillers' = FALSE
    /\ anchors' = <<>>
    /\ fillers' = <<>>
    /\ beam' = <<>>
    /\ lineage' = <<>>
    /\ unpruned' = 0
    /\ emptied' = FALSE

\* "if not beam": the return of an empty result
SolveFail ==
    /\ pc = "anchors"
    /\ anchors = <<>>
    /\ beam = <<>>
    /\ debug_data' = debug_data
    /\ Return(<<>>)
    /\ UNCHANGED <<heap_vars, solver_vars, fn_vars>>

\* the rest of solve: the best solution, the fillers, the sort, the debug data
SolveFinish ==
    /\ pc = "anchors"
    /\ anchors = <<>>
    /\ beam # <<>>
    /\ debug_data' = dict_set(dict_set(debug_data, "beam_final_size", Len(beam)),
                              "best_score", best_of(beam).total_score)
    /\ Return(solve_volumes(room.width, beam, fillers, skip_fillers))
    /\ UNCHANGED <<heap_vars, solver_vars, fn_vars>>

\* one call of solve on a new solver
Next ==
    \/ SolveBegin(Wishlists, 1)
    \/ ExpandBeam
    \/ SolveFail
    \/ SolveFinish

Spec == Init /\ [][Next]_vars

\* several calls of solve on one solver, of wishlists of at most one anchor
CallItems == { [type |-> "sink_cabinet"], [type |-> "stove_cabinet", width |-> 2] }

CallWishlists == SeqsUpTo(CallItems, 1)

NextCalls ==
    \/ SolveBegin(CallWishlists, MaxSolves)
    \/ ExpandBeam
    \/ SolveFail
    \/ SolveFinish

SpecCalls == Init /\ [][NextCalls]_vars

\* one call of a method of a CollisionMask, of any hard_mask
Masks ==
    UNION { { [hard_mask |-> h, soft_mask |-> Array([c \in Cells(n) |-> 0]), room_width |-> n] :
                h \in [Cells(n) -> {0, 1}] } :
            n \in 1 .. MaxMaskWidth }

InitMask ==
    /\ NoSolver
    /\ NoSolve
    /\ NoHeap
    /\ fn_arg \in Masks
    /\ fn_call = <<>>

IsValidPlacementCall ==
    /\ fn_call = <<>>
    /\ \E start_cm \in (0 - MaxOutside) .. (fn_arg.room_width + MaxOutside),
          width \in 0 .. (fn_arg.room_width + MaxOutside) :
          fn_call' = [method |-> "is_valid_placement", start_cm |-> start_cm, width |-> width,
                      result |-> is_valid_placement(fn_arg, start_cm, width)]
    /\ UNCHANGED <<heap_vars, solver_vars, solve_vars, fn_arg>>

MarkOccupiedCall ==
    /\ fn_call = <<>>
    /\ \E start_cm \in (0 - MaxOutside) .. (fn_arg.room_width + MaxOutside),
          end_cm \in (0 - MaxOutside) .. (fn_arg.room_width + MaxOutside),
          include_door_swing \in BOOLEAN,
          door_swing_cm \in 0 .. MaxSwing,
          door_swing_penalty \in {3, door_swing_penalty_default} :
          fn_call' = [method |-> "mark_occupied", start_cm |-> start_cm, end_cm |-> end_cm,
                      include_door_swing |-> include_door_swing,
                      door_swing_cm |-> door_swing_cm,
                      door_swing_penalty |-> door_swing_penalty,
                      result |-> mark_occupied(fn_arg, start_cm, end_cm, include_door_swing,
                                               door_swing_cm, door_swing_penalty)]
    /\ UNCHANGED <<heap_vars, solver_vars, solve_vars, fn_arg>>

NextMask ==
    \/ IsValidPlacementCall
    \/ MarkOccupiedCall

SpecMask == InitMask /\ [][NextMask]_vars

\* one call of a method of a GridMap, of any data out of GridValues
GridValues == {-1, 0, 2}

Grids ==
    UNION { { [data |-> d, room_width |-> n] : d \in [Cells(n) -> GridValues] } :
            n \in 1 .. MaxGridWidth }

InitGrid ==
    /\ NoSolver
    /\ NoSolve
    /\ NoHeap
    /\ fn_arg \in Grids
    /\ fn_call = <<>>

FindBestPositionCall ==
    /\ fn_call = <<>>
    /\ \E item_width \in 1 .. (fn_arg.room_width + 1) :
          fn_call' = [method |-> "find_best_position", item_width |-> item_width,
                      result |-> find_best_position(fn_arg, item_width)]
    /\ UNCHANGED <<heap_vars, solver_vars, solve_vars, fn_arg>>

FindTopKPositionsCall ==
    /\ fn_call = <<>>
    /\ \E item_width \in 1 .. (fn_arg.room_width + 1), k \in 1 .. MaxTopK :
          \E result \in find_top_k_positions(fn_arg, item_width, k) :
             fn_call' = [method |-> "find_top_k_positions", item_width |-> item_width,
                         k |-> k, result |-> result]
    /\ UNCHANGED <<heap_vars, solver_vars, solve_vars, fn_arg>>

NextGrid ==
    \/ FindBestPositionCall
    \/ FindTopKPositionsCall

SpecGrid == InitGrid /\ [][NextGrid]_vars

\* one call of compute_dynamic_fields, of any list of emitters; the call is
\* made on the list, on the list in another order and on its two parts
Emitters ==
    { FieldEmitter(0, 2, "sink_cabinet"), FieldEmitter(1, 2, "stove_cabinet"),
      FieldEmitter(2, 1, "fridge") }

TargetTypes == { "dishwasher", "fridge", "oven_tower", "base_cabinet" }

\* the orders of n elements
Orders(n) == { p \in [1 .. n -> 1 .. n] : \A i, j \in 1 .. n : p[i] = p[j] => i = j }

InOrderOf(seq, p) == [i \in 1 .. Len(seq) |-> seq[p[i]]] \o <<>>

InitFields ==
    /\ NoSolver
    /\ NoSolve
    /\ NoHeap
    /\ \E placed_emitters \in SeqsUpTo(Emitters, MaxEmitters),
          target_type \in TargetTypes,
          room_width \in (MaxFieldWidth - 1) .. MaxFieldWidth :
          fn_arg = [placed_emitters |-> placed_emitters, target_type |-> target_type,
                    room_width |-> room_width]
    /\ fn_call = <<>>

ComputeDynamicFieldsCall ==
    /\ fn_call = <<>>
    /\ \E n \in 0 .. Len(fn_arg.placed_emitters), p \in Orders(Len(fn_arg.placed_emitters)) :
          fn_call' =
              [method |-> "compute_dynamic_fields",
               a |-> SubSeq(fn_arg.placed_emitters, 1, n),
               b |-> SubSeq(fn_arg.placed_emitters, n + 1, Len(fn_arg.placed_emitters)),
               order |-> p,
               result |-> compute_dynamic_fields(fn_arg.placed_emitters,
                              fn_arg.target_type, fn_arg.room_width),
               result_a |-> compute_dynamic_fields(SubSeq(fn_arg.placed_emitters, 1, n),
                                fn_arg.target_type, fn_arg.room_width),
               result_b |-> compute_dynamic_fields(
                                SubSeq(fn_arg.placed_emitters, n + 1,
                                       Len(fn_arg.placed_emitters)),
                                fn_arg.target_type, fn_arg.room_width),
               result_reordered |-> compute_dynamic_fields(
                                        InOrderOf(fn_arg.placed_emitters, p),
                                        fn_arg.target_type, fn_arg.room_width)]
    /\ UNCHANGED <<heap_vars, solver_vars, solve_vars, fn_arg>>

NextFields == ComputeDynamicFieldsCall

SpecFields == InitFields /\ [][NextFields]_vars

\* one solve of a wishlist of three items, in any order of the three
OrderLists ==
    { <<[type |-> "fridge", width |-> 1], [type |-> "stove_cabinet", width |-> 1],
        [type |-> "sink_cabinet", width |-> 1]>>,
      <<[type |-> "stove_cabinet", width |-> 1], [type |-> "stove_cabinet", width |-> 2],
        [type |-> "sink", width |-> 1]>>,
      <<[type |-> "oven_tower", width |-> 1], [type |-> "pantry", width |-> 1],
        [type |-> "dishwasher", width |-> 60]>>,
      <<[type |-> "sink", width |-> 1], [type |-> "sink_cabinet", width |-> 2],
        [type |-> "stove", width |-> 1]>> }

OrderWishlists == { InOrder(wl, p) : wl \in OrderLists, p \in Orders(3) }

NextOrder ==
    \/ SolveBegin(OrderWishlists, 1)
    \/ ExpandBeam
    \/ SolveFail
    \/ SolveFinish

SpecOrder == Init /\ [][NextOrder]_vars

\* one call of _fill_range, of any range that is not empty backwards
FillerLists ==
    { <<>>, <<[type |-> "dishwasher"]>>, <<[type |-> "drawer_cabinet"], [type |-> "dishwasher"]>>,
      <<[type |-> "base_cabinet"]>> }

InitFill ==
    /\ NoSolver
    /\ NoSolve
    /\ NoHeap
    /\ \E start \in 0 .. MaxStart, gap \in 0 .. MaxGap, available_fillers \in FillerLists :
          fn_arg = [start |-> start, end |-> start + gap, available_fillers |-> available_fillers]
    /\ fn_call = <<>>

FillRangeCall ==
    /\ fn_call = <<>>
    /\ fn_call' = [method |-> "_fill_range",
                   result |-> _fill_range(fn_arg.start, fn_arg.end, fn_arg.available_fillers)]
    /\ UNCHANGED <<heap_vars, solver_vars, solve_vars, fn_arg>>

NextFill == FillRangeCall

SpecFill == InitFill /\ [][NextFill]_vars

\* one solve on a wall long enough for filler cabinets, with water at its
\* start or in its middle
WallShapes ==
    { [doors |-> <<>>, windows |-> <<>>, utilities |-> <<[type |-> "water", x |-> 0]>>],
      [doors |-> <<>>, windows |-> <<>>, utilities |-> <<[type |-> "water", x |-> 62]>>] }

WallRooms ==
    { [width |-> w, doors |-> sh.doors, windows |-> sh.windows, utilities |-> sh.utilities] :
        w \in {90, 125}, sh \in WallShapes }

WallWishlists ==
    { <<[type |-> "sink_cabinet"]>>,
      <<[type |-> "sink_cabinet", width |-> 2], [type |-> "dishwasher"]>>,
      <<[type |-> "dishwasher"], [type |-> "stove_cabinet", width |-> 2],
        [type |-> "dishwasher"]>>,
      <<[type |-> "sink_cabinet"], [type |-> "fridge"]>>,
      <<[type |-> "stove_cabinet", width |-> 2], [type |-> "base_cabinet"],
        [type |-> "stove_cabinet", width |-> 2]>> }

InitWall ==
    /\ room \in WallRooms
    /\ static_layers = make_static_layers(room)
    /\ BEAM_WIDTH \in 1 .. MaxBeamWidth
    /\ CANDIDATES_PER_ITEM \in 1 .. MaxCandidates
    /\ NoSolve
    /\ NoHeap
    /\ NoCall

NextWall ==
    \/ SolveBegin(WallWishlists, 1)
    \/ ExpandBeam
    \/ SolveFail
    \/ SolveFinish

SpecWall == InitWall /\ [][NextWall]_vars

\* one solve of an LShapeHeatmapSolver: fn_arg is the L-shape solver, fn_call
\* the call of its solve, and room .. debug_data are those of the arm solver
\* whose solve is running
LUtilities ==
    { <<>>,
      <<[type |-> "water", x |-> 200], [type |-> "gas", x |-> 30]>>,
      <<[type |-> "water", x |-> 30]>>,
      <<[type |-> "water", x |-> 30], [type |-> "water", x |-> 65], [type |-> "gas", x |-> 120]>> }

\* wall_b_length 0: the room has no wall_b_length
LRooms ==
    { [width |-> 400, length |-> 300, wall_b_length |-> b, doors |-> <<>>, windows |-> <<>>,
       utilities |-> u] : b \in {0, 300, 100}, u \in LUtilities }

CornerTypes == { "blind", "diagonal", "carousel", "lazy_susan" }

LWishlists ==
    { <<>>,
      <<[type |-> "sink_cabinet"], [type |-> "stove_cabinet"], [type |-> "fridge"],
        [type |-> "dishwasher"]>>,
      <<[type |-> "oven_tower"], [type |-> "pantry", width |-> 45], [type |-> "fridge"]>>,
      <<[type |-> "base_cabinet"], [type |-> "sink"], [type |-> "drawer_cabinet", width |-> 45],
        [type |-> "stove"]>> }

InitL ==
    /\ NoSolver
    /\ NoSolve
    /\ NoHeap
    /\ \E lroom \in LRooms, corner_type \in CornerTypes :
          fn_arg = LShapeHeatmapSolver(lroom, corner_type, MaxBeamWidth)
    /\ fn_call = <<>>

\* the solver whose solve runs next, and the entry of its solve
EnterSolve(solver, wl, skip) ==
    /\ room' = solver.room
    /\ static_layers' = solver.static_layers
    /\ BEAM_WIDTH' = solver.BEAM_WIDTH
    /\ CANDIDATES_PER_ITEM' = solver.CANDIDATES_PER_ITEM
    /\ debug_data' = solver.debug_data
    /\ wishlist' = wl
    /\ skip_fillers' = skip
    /\ anchors' = sorted_anchors(wl)
    /\ fillers' = SelectSeq(wl, IsFiller)
    /\ beam' = <<initial_solution(solver.room.width)>>
    /\ lineage' = <<0>>
    /\ unpruned' = 0
    /\ emptied' = FALSE
    /\ pc' = "anchors"

\* LShapeHeatmapSolver.solve up to the call of the solve of arm A
LSolveBegin ==
    /\ pc = "idle"
    /\ fn_call = <<>>
    /\ \E wl \in LWishlists :
          /\ fn_call' = [method |-> "LShapeHeatmapSolver.solve", wishlist |-> wl,
                         arm_a_items |-> _distribute_items(fn_arg, wl).arm_a,
                         arm_b_items |-> _distribute_items(fn_arg, wl).arm_b,
                         result |-> <<>>]
          /\ EnterSolve(fn_arg._arm_a_solver, _distribute_items(fn_arg, wl).arm_a, FALSE)
    /\ UNCHANGED <<heap_vars, returned, fn_arg>>

\* the call of the solve of arm B, after the solve of arm A has returned
LSolveArmB ==
    /\ pc = "idle"
    /\ fn_call # <<>>
    /\ Len(returned) = 1
    /\ EnterSolve(fn_arg._arm_b_solver, fn_call.arm_b_items, TRUE)
    /\ UNCHANGED <<heap_vars, returned, fn_vars>>

\* the rest of LShapeHeatmapSolver.solve, after the solve of arm B has returned
LSolveFinish ==
    /\ pc = "idle"
    /\ fn_call # <<>>
    /\ Len(returned) = 2
    /\ fn_call.result = <<>>
    /\ fn_call' = [fn_call EXCEPT
                     !.result = <<lshape_result(fn_arg, returned[1], returned[2])>>]
    /\ UNCHANGED <<heap_vars, solver_vars, solve_vars, fn_arg>>

NextL ==
    \/ LSolveBegin
    \/ ExpandBeam
    \/ SolveFail
    \/ SolveFinish
    \/ LSolveArmB
    \/ LSolveFinish

SpecL == InitL /\ [][NextL]_vars

\* one solve on a new solver and then one call of find_best_position or of
\* find_top_k_positions on its architecture layer, for items up to one cell
\* wider than the room
InitWide ==
    /\ room \in { r \in Rooms : r.width = MaxRoomWidth }
    /\ static_layers = make_static_layers(room)
    /\ BEAM_WIDTH = MaxBeamWidth
    /\ CANDIDATES_PER_ITEM = MaxCandidates
    /\ NoSolve
    /\ NoHeap
    /\ fn_arg = create_architecture_layer(room)
    /\ fn_call = <<>>

\* the calls on the layer, after the solve
FindBestPositionAfterSolve == returned # <<>> /\ FindBestPositionCall

FindTopKPositionsAfterSolve == returned # <<>> /\ FindTopKPositionsCall

NextWide ==
    \/ SolveBegin(Wishlists, 1)
    \/ ExpandBeam
    \/ SolveFail
    \/ SolveFinish
    \/ FindBestPositionAfterSolve
    \/ FindTopKPositionsAfterSolve

SpecWide == InitWide /\ [][NextWide]_vars

\* one call of _generate_candidates on a new solver, for a parent without
\* placements or a parent that holds a sink cabinet in the first two cells
CandidateTypes ==
    { "sink_cabinet", "stove_cabinet", "fridge", "dishwasher", "pantry", "oven_tower", "sink" }

Parents ==
    { initial_solution(room.width),
      child_solution(initial_solution(room.width),
                     PlacementCandidate(0, 0, "sink_cabinet", 2)) }

GenerateCandidatesCall ==
    /\ fn_call = <<>>
    /\ \E item_type \in CandidateTypes, parent \in Parents,
          item_width \in {1, 2, room.width, room.width + 1} :
          \E result \in _generate_candidates(static_layers, room.width, CANDIDATES_PER_ITEM,
                             item_type, item_width, parent.collision_mask, parent.emitters) :
             fn_call' = [method |-> "_generate_candidates", item_type |-> item_type,
                         item_width |-> item_width, mask |-> parent.collision_mask,
                         emitters |-> parent.emitters,
                         combined |-> combined_field(static_layers, room.width, item_type,
                                          parent.collision_mask, parent.emitters),
                         result |-> result]
    /\ UNCHANGED <<heap_vars, solver_vars, solve_vars, fn_arg>>

NextCand == GenerateCandidatesCall

SpecCand == Init /\ [][NextCand]_vars

\* one call of _distribute_items on an L-shape solver whose arms are close in
\* length, with gas on arm A, on arm B, on both or on neither
DistUtilities ==
    { <<>>,
      <<[type |-> "gas", x |-> 150]>>,
      <<[type |-> "gas", x |-> 30]>>,
      <<[type |-> "gas", x |-> 30], [type |-> "water", x |-> 10], [type |-> "gas", x |-> 120]>>,
      <<[type |-> "water", x |-> 150]>>,
      <<[type |-> "water", x |-> 30]>> }

DistRooms ==
    { [width |-> w, length |-> 200, wall_b_length |-> b, doors |-> <<>>, windows |-> <<>>,
       utilities |-> u] : w \in {200, 255}, b \in {0, 190}, u \in DistUtilities }

\* the items of a wishlist are different objects: no item is twice in a list
DistWishlists ==
    { <<>>,
      <<[type |-> "base_cabinet"], [type |-> "drawer_cabinet"],
        [type |-> "wall_cabinet", width |-> 120], [type |-> "base_cabinet", width |-> 30]>>,
      <<[type |-> "stove_cabinet"], [type |-> "fridge"], [type |-> "base_cabinet"],
        [type |-> "stove"], [type |-> "pantry", width |-> 45]>>,
      <<[type |-> "oven_tower"], [type |-> "sink"], [type |-> "drawer_cabinet", width |-> 90],
        [type |-> "stove_cabinet", width |-> 80], [type |-> "base_cabinet"]>>,
      <<[type |-> "hood", width |-> 75], [type |-> "stove"], [type |-> "drawer_cabinet"],
        [type |-> "base_cabinet", width |-> 45], [type |-> "fridge"],
        [type |-> "base_cabinet", width |-> 80], [type |-> "dishwasher"]>> }

InitDist ==
    /\ NoSolver
    /\ NoSolve
    /\ NoHeap
    /\ \E lroom \in DistRooms, corner_type \in {"blind", "carousel"} :
          fn_arg = LShapeHeatmapSolver(lroom, corner_type, MaxBeamWidth)
    /\ fn_call = <<>>

DistributeItemsCall ==
    /\ fn_call = <<>>
    /\ \E wl \in DistWishlists :
          fn_call' = [method |-> "_distribute_items", wishlist |-> wl,
                      arm_a |-> _distribute_items(fn_arg, wl).arm_a,
                      arm_b |-> _distribute_items(fn_arg, wl).arm_b]
    /\ UNCHANGED <<heap_vars, solver_vars, solve_vars, fn_arg>>

NextDist == DistributeItemsCall

SpecDist == InitDist /\ [][NextDist]_vars

\* calls of solve on one solver, with every array, list and object of the
\* solver and of the call on the heap: refs.layers is self._static_layers,
\* refs.beam, refs.new_solutions, refs.solution and refs.candidates are the
\* locals of solve and _expand_beam, and static_layers keeps the layers as
\* they were built
HeapWishlists ==
    { <<>>,
      <<[type |-> "sink_cabinet"]>>,
      <<[type |-> "stove_cabinet", width |-> 2]>>,
      <<[type |-> "dishwasher", width |-> 60], [type |-> "fridge", width |-> 1],
        [type |-> "sink_cabinet", width |-> 2]>> }

NoLocals == [beam |-> <<>>, new_solutions |-> <<>>, solution |-> 0, candidates |-> <<>>]

InitHeap ==
    /\ room \in { r \in Rooms : r.width = MaxRoomWidth }
    /\ static_layers = make_static_layers(room)
    /\ BEAM_WIDTH = MaxBeamWidth
    /\ CANDIDATES_PER_ITEM = MaxCandidates
    /\ NoSolve
    /\ heap = layers_in_heap(<<>>, <<>>, make_static_layers(room),
                             DOMAIN make_static_layers(room)).heap
    /\ refs = [layers |-> layers_in_heap(<<>>, <<>>, make_static_layers(room),
                                         DOMAIN make_static_layers(room)).refs]
              @@ NoLocals
    /\ NoCall

heap_frame == <<solver_vars, beam, lineage, unpruned, fn_vars>>

\* solve up to the loop over the anchors
HeapSolveBegin ==
    /\ pc = "idle"
    /\ Len(returned) < MaxHeapSolves
    /\ \E wl \in HeapWishlists, skip \in BOOLEAN :
          /\ wishlist' = wl
          /\ skip_fillers' = skip
          /\ anchors' = sorted_anchors(wl)
          /\ fillers' = SelectSeq(wl, IsFiller)
    /\ heap' = new_initial_solution(heap, room.width).heap
    /\ refs' = [refs EXCEPT !.beam = <<new_initial_solution(heap, room.width).ref>>]
    /\ emptied' = FALSE
    /\ pc' = "solve"
    /\ UNCHANGED <<heap_frame, debug_data, returned>>

\* the call of _expand_beam, up to its loop over the beam
HeapExpandBeam ==
    /\ pc = "solve"
    /\ anchors # <<>>
    /\ refs' = [refs EXCEPT !.new_solutions = <<>>, !.solution = 1]
    /\ pc' = "expand"
    /\ UNCHANGED <<heap_frame, heap, debug_data, wishlist, skip_fillers, anchors, fillers,
                   emptied, returned>>

\* the call of _generate_candidates for the next solution of the beam
HeapGenerateCandidates ==
    /\ pc = "expand"
    /\ refs.solution <= Len(refs.beam)
    /\ \E combined \in
            { combined_in_heap(heap, refs.layers, Head(anchors).type,
                               solution_at(heap, refs.beam[refs.solution]).collision_mask,
                               solution_at(heap, refs.beam[refs.solution]).emitters) } :
          \E top_positions \in
                find_top_k_positions(grid_at(combined.heap, combined.ref),
                                     item_width_of(Head(anchors)), CANDIDATES_PER_ITEM) :
             /\ refs' = [refs EXCEPT !.candidates =
                            valid_candidates(top_positions,
                                solution_at(heap, refs.beam[refs.solution]).collision_mask,
                                Head(anchors).type, item_width_of(Head(anchors)))]
             /\ heap' = collected(combined.heap, refs.layers, refs.beam \o refs.new_solutions)
    /\ pc' = "branch"
    /\ UNCHANGED <<heap_frame, debug_data, wishlist, skip_fillers, anchors, fillers, emptied,
                   returned>>

\* one turn of the loop over the candidates: a new solution
HeapBranch ==
    /\ pc = "branch"
    /\ refs.candidates # <<>>
    /\ \E new_sol \in { branch(heap, refs.beam[refs.solution], Head(refs.candidates)) } :
          /\ heap' = new_sol.heap
          /\ refs' = [refs EXCEPT !.new_solutions = Append(@, new_sol.ref),
                                  !.candidates = Tail(@)]
    /\ UNCHANGED <<heap_frame, debug_data, pc, wishlist, skip_fillers, anchors, fillers,
                   emptied, returned>>

\* the end of the loop over the candidates: the next solution of the beam
HeapNextSolution ==
    /\ pc = "branch"
    /\ refs.candidates = <<>>
    /\ refs' = [refs EXCEPT !.solution = @ + 1]
    /\ pc' = "expand"
    /\ UNCHANGED <<heap_frame, heap, debug_data, wishlist, skip_fillers, anchors, fillers,
                   emptied, returned>>

\* the sort, the cut and the return of _expand_beam: the beam is its result
HeapPrune ==
    /\ pc = "expand"
    /\ refs.solution > Len(refs.beam)
    /\ refs' = [refs EXCEPT !.beam = pruned_refs(heap, refs.new_solutions, BEAM_WIDTH),
                            !.new_solutions = <<>>, !.solution = 0]
    /\ heap' = collected(heap, refs.layers,
                         pruned_refs(heap, refs.new_solutions, BEAM_WIDTH))
    /\ emptied' = (emptied \/ refs.new_solutions = <<>>)
    /\ anchors' = Tail(anchors)
    /\ pc' = "solve"
    /\ UNCHANGED <<heap_frame, debug_data, wishlist, skip_fillers, fillers, returned>>

\* "if not beam": the return of an empty result
HeapSolveFail ==
    /\ pc = "solve"
    /\ anchors = <<>>
    /\ refs.beam = <<>>
    /\ debug_data' = debug_data
    /\ Return(<<>>)
    /\ UNCHANGED <<heap_vars, solver_vars, fn_vars>>

\* the rest of solve; the solutions of the beam end with the call
HeapSolveFinish ==
    /\ pc = "solve"
    /\ anchors = <<>>
    /\ refs.beam # <<>>
    /\ debug_data' = dict_set(dict_set(debug_data, "beam_final_size", Len(refs.beam)),
                              "best_score",
                              best_of(solutions_at(heap, refs.beam)).total_score)
    /\ Return(solve_volumes(room.width, solutions_at(heap, refs.beam), fillers, skip_fillers))
    /\ refs' = [refs EXCEPT !.beam = <<>>]
    /\ heap' = collected(heap, refs.layers, <<>>)
    /\ UNCHANGED <<solver_vars, fn_vars>>

NextHeap ==
    \/ HeapSolveBegin
    \/ HeapExpandBeam
    \/ HeapGenerateCandidates
    \/ HeapBranch
    \/ HeapNextSolution
    \/ HeapPrune
    \/ HeapSolveFail
    \/ HeapSolveFinish

SpecHeap == InitHeap /\ [][NextHeap]_vars

\* one solve in which every _expand_beam takes its (parent, candidate) pairs
\* in any order and interleaving: the candidates of any parent of the beam
\* whose candidates are still to come (refs.todo), then for any pair that
\* waits (refs.pending) the copy of the parent, and for any copy (refs.copies)
\* the body of the loop; the sort and the cut come when nothing is left. Steps
\* of more than MaxPairs pairs are not taken.
ParWishlists ==
    { <<[type |-> "sink_cabinet"]>>,
      <<[type |-> "stove_cabinet", width |-> 2], [type |-> "fridge", width |-> 1]>>,
      <<[type |-> "fridge", width |-> 1], [type |-> "sink_cabinet", width |-> 2],
        [type |-> "stove_cabinet", width |-> 2]>> }

ParLocals ==
    [beam |-> <<>>, new_solutions |-> <<>>, todo |-> {}, pending |-> {}, copies |-> {}]

RECURSIVE SeqOf(_)
SeqOf(S) == IF S = {} THEN <<>> ELSE LET x == CHOOSE y \in S : TRUE IN <<x>> \o SeqOf(S \ {x})

\* the solutions that the call holds: the beam, the children and the copies
held(r) == r.beam \o r.new_solutions \o SeqOf({ copy[1] : copy \in r.copies })

InitPar ==
    /\ room \in { r \in Rooms : r.width = MaxRoomWidth }
    /\ static_layers = make_static_layers(room)
    /\ BEAM_WIDTH = MaxBeamWidth
    /\ CANDIDATES_PER_ITEM \in 1 .. MaxCandidates
    /\ NoSolve
    /\ heap = layers_in_heap(<<>>, <<>>, make_static_layers(room),
                             DOMAIN make_static_layers(room)).heap
    /\ refs = [layers |-> layers_in_heap(<<>>, <<>>, make_static_layers(room),
                                         DOMAIN make_static_layers(room)).refs]
              @@ ParLocals
    /\ NoCall

ParSolveBegin ==
    /\ pc = "idle"
    /\ returned = <<>>
    /\ \E wl \in ParWishlists :
          /\ wishlist' = wl
          /\ anchors' = sorted_anchors(wl)
          /\ fillers' = SelectSeq(wl, IsFiller)
    /\ skip_fillers' = TRUE
    /\ heap' = new_initial_solution(heap, room.width).heap
    /\ refs' = [refs EXCEPT !.beam = <<new_initial_solution(heap, room.width).ref>>]
    /\ emptied' = FALSE
    /\ pc' = "solve"
    /\ UNCHANGED <<heap_frame, debug_data, returned>>

\* the call of _expand_beam: every solution of the beam is a parent to come
ParExpandBeam ==
    /\ pc = "solve"
    /\ anchors # <<>>
    /\ Len(refs.beam) * CANDIDATES_PER_ITEM <= MaxPairs
    /\ refs' = [refs EXCEPT !.new_solutions = <<>>, !.todo = DOMAIN refs.beam]
    /\ pc' = "expand"
    /\ UNCHANGED <<heap_frame, heap, debug_data, wishlist, skip_fillers, anchors, fillers,
                   emptied, returned>>

\* _generate_candidates for any parent of the beam
ParGenerateCandidates ==
    /\ pc = "expand"
    /\ \E parent \in refs.todo :
          \E combined \in
                { combined_in_heap(heap, refs.layers, Head(anchors).type,
                                   solution_at(heap, refs.beam[parent]).collision_mask,
                                   solution_at(heap, refs.beam[parent]).emitters) } :
             \E top_positions \in
                   find_top_k_positions(grid_at(combined.heap, combined.ref),
                                        item_width_of(Head(anchors)), CANDIDATES_PER_ITEM) :
                \E candidates \in
                      { valid_candidates(top_positions,
                            solution_at(heap, refs.beam[parent]).collision_mask,
                            Head(anchors).type, item_width_of(Head(anchors))) } :
                   /\ refs' = [refs EXCEPT
                                 !.todo = @ \ {parent},
                                 !.pending = @ \cup { <<parent, candidates[j]>> :
                                                         j \in DOMAIN candidates }]
                   /\ heap' = collected(combined.heap, refs.layers, held(refs))
    /\ UNCHANGED <<heap_frame, debug_data, pc, wishlist, skip_fillers, anchors, fillers,
                   emptied, returned>>

\* "new_sol = solution.copy()" for any pair that waits
ParCopy ==
    /\ pc = "expand"
    /\ \E pair \in refs.pending :
          \E copied \in { PartialSolution_copy(heap, refs.beam[pair[1]]) } :
             /\ heap' = copied.heap
             /\ refs' = [refs EXCEPT !.pending = @ \ {pair},
                                     !.copies = @ \cup { <<copied.ref, pair[2]>> }]
    /\ UNCHANGED <<heap_frame, debug_data, pc, wishlist, skip_fillers, anchors, fillers,
                   emptied, returned>>

\* the body of the loop over the candidates on any copy, and the append
ParBranch ==
    /\ pc = "expand"
    /\ \E copy \in refs.copies :
          \E new_sol \in { branch_on([heap |-> heap, ref |-> copy[1]], copy[2]) } :
             /\ heap' = new_sol.heap
             /\ refs' = [refs EXCEPT !.copies = @ \ {copy},
                                     !.new_solutions = Append(@, new_sol.ref)]
    /\ UNCHANGED <<heap_frame, debug_data, pc, wishlist, skip_fillers, anchors, fillers,
                   emptied, returned>>

\* the sort and the cut, when every pair has made its child
ParPrune ==
    /\ pc = "expand"
    /\ refs.todo = {}
    /\ refs.pending = {}
    /\ refs.copies = {}
    /\ refs' = [refs EXCEPT !.beam = pruned_refs(heap, refs.new_solutions, BEAM_WIDTH),
                            !.new_solutions = <<>>]
    /\ heap' = collected(heap, refs.layers,
                         pruned_refs(heap, refs.new_solutions, BEAM_WIDTH))
    /\ emptied' = (emptied \/ refs.new_solutions = <<>>)
    /\ anchors' = Tail(anchors)
    /\ pc' = "solve"
    /\ UNCHANGED <<heap_frame, debug_data, wishlist, skip_fillers, fillers, returned>>

NextPar ==
    \/ ParSolveBegin
    \/ ParExpandBeam
    \/ ParGenerateCandidates
    \/ ParCopy
    \/ ParBranch
    \/ ParPrune
    \/ HeapSolveFail
    \/ HeapSolveFinish

SpecPar == InitPar /\ [][NextPar]_vars

\* ------------------------------------------------------- the beam search
Solutions == { beam[i] : i \in DOMAIN beam }

\* the cells [position, position + width) of a placement
Interval(p) == p.position .. (p.position + p.width - 1)

Disjoint(p, q) == p.position + p.width <= q.position \/ q.position + q.width <= p.position

\* a step of the loop over the anchors, that is one call of _expand_beam
ExpandStep == pc = "anchors" /\ pc' = "anchors"

Last(seq) == seq[Len(seq)]

\* C1: in every solution of the beam, after any number of expansions, the
\* placements are pairwise disjoint intervals of the wall.
C1_PlacementsDisjoint ==
    \A sol \in Solutions :
        \A a, b \in DOMAIN sol.placements :
            a < b => Disjoint(sol.placements[a], sol.placements[b])

\* a solution of the beam holds two placements that touch
C1_Witness ==
    \E sol \in Solutions :
        /\ Len(sol.placements) >= 2
        /\ \E a, b \in DOMAIN sol.placements :
              sol.placements[a].position + sol.placements[a].width = sol.placements[b].position

C3_InsideOrDropped ==
    /\ [](\A sol \in Solutions : \A a \in DOMAIN sol.placements :
              /\ 0 <= sol.placements[a].position
              /\ sol.placements[a].position + sol.placements[a].width <= room.width)
    /\ [][ExpandStep =>
             \A i \in DOMAIN beam' :
                LET parent == beam[lineage'[i]]
                    cand == Last(beam'[i].placements)
                    field == combined_field(static_layers, room.width, cand.item_type,
                                            parent.collision_mask, parent.emitters)
                IN  /\ beam'[i].placements = Append(parent.placements, cand)
                    /\ cand.score = WindowSum(field.data, cand.position, cand.width)
                    /\ \A c \in Interval(cand) : parent.collision_mask.hard_mask[c] = 0
                    /\ cand.score > -5000 * Unit]_vars

\* the first expansion had CANDIDATES_PER_ITEM >= 2 positions to try and room
\* in the beam for them, and one of them gave no child
C3_Witness ==
    /\ pc = "anchors"
    /\ BEAM_WIDTH >= 2
    /\ CANDIDATES_PER_ITEM >= 2
    /\ Len(beam) = 1
    /\ Len(beam[1].placements) = 1
    /\ unpruned = 1
    /\ beam[1].placements[1].width < room.width

\* C7: once an _expand_beam of a call has returned an empty beam, the beam is
\* empty after every later expansion of the call, and the call returns
\* volumes == [].
C7_EmptyBeamStaysEmpty ==
    [][(pc = "anchors" /\ emptied) =>
          /\ beam' = <<>>
          /\ pc' = "idle" =>
                /\ Last(returned').emptied
                /\ Last(returned').volumes = <<>>]_vars

\* a call whose first anchor emptied the beam went on to a second anchor and
\* returned
C7_Witness ==
    \E n \in DOMAIN returned :
        /\ returned[n].emptied
        /\ returned[n].volumes = <<>>
        /\ Len(sorted_anchors(returned[n].wishlist)) = 2
        /\ item_width_of(sorted_anchors(returned[n].wishlist)[1]) > room.width

\* C9: a call of solve with an empty wishlist, or with a wishlist that holds
\* no anchor type, returns volumes == [], with skip_fillers or without.
C9_NoAnchorsNoVolumes ==
    /\ \A n \in DOMAIN returned :
          SelectSeq(returned[n].wishlist, IsAnchor) = <<>> =>
              returned[n].volumes = <<>> /\ ~returned[n].emptied
    /\ (pc = "anchors" /\ SelectSeq(wishlist, IsAnchor) = <<>>) =>
          anchors = <<>> /\ beam # <<>>

\* a call with a wishlist of fillers only, fillers enabled, has returned
C9_Witness ==
    \E n \in DOMAIN returned :
        /\ returned[n].wishlist # <<>>
        /\ SelectSeq(returned[n].wishlist, IsAnchor) = <<>>
        /\ ~returned[n].skip_fillers
        /\ returned[n].volumes = <<>>

\* C10: from a solution of the beam to each of its children, a cell with
\* hard_mask 1 keeps hard_mask 1 and no cell's soft_mask decreases.
C10_MasksMonotone ==
    [][ExpandStep =>
          \A i \in DOMAIN beam' :
             LET parent == beam[lineage'[i]].collision_mask
                 child == beam'[i].collision_mask
             IN  \A c \in Cells(room.width) :
                    /\ parent.hard_mask[c] = 1 => child.hard_mask[c] = 1
                    /\ child.soft_mask[c] >= parent.soft_mask[c]]_vars

\* a chain of two steps: a solution with two placements, whose mask has hard
\* cells from both and a soft penalty added twice
C10_Witness ==
    \E sol \in Solutions :
        /\ Len(sol.placements) = 2
        /\ \A a \in DOMAIN sol.placements :
              \A c \in Interval(sol.placements[a]) : sol.collision_mask.hard_mask[c] = 1
        /\ \E c \in Cells(room.width) :
              sol.collision_mask.soft_mask[c] = 2 * door_swing_penalty_default

\* ---------------------------------------------------- the single methods
Called(method) == fn_call # <<>> /\ fn_call.method = method

\* data[p] + ... + data[p + w - 1]
RECURSIVE RangeSum(_, _, _)
RangeSum(data, p, w) == IF w = 0 THEN 0 ELSE data[p + w - 1] + RangeSum(data, p, w - 1)

\* no cell of [s, s + w) on the wall has hard_mask 1
NoHardCell(mask, s, w) ==
    \A c \in Cells(mask.room_width) : (s <= c /\ c < s + w) => mask.hard_mask[c] = 0

C5_BestPositionIsMaximal ==
    (Called("find_best_position") /\ fn_call.item_width <= fn_arg.room_width) =>
        LET w == fn_call.item_width
            p == fn_call.result
        IN  /\ p \in 0 .. (fn_arg.room_width - w)
            /\ \A q \in 0 .. (fn_arg.room_width - w) :
                  RangeSum(fn_arg.data, q, w) <= RangeSum(fn_arg.data, p, w)

\* the best window is neither the first nor the last, and it beats both
C5_Witness ==
    /\ Called("find_best_position")
    /\ fn_call.item_width >= 2
    /\ fn_call.result > 0
    /\ fn_call.result < fn_arg.room_width - fn_call.item_width
    /\ RangeSum(fn_arg.data, 0, fn_call.item_width)
          < RangeSum(fn_arg.data, fn_call.result, fn_call.item_width)
    /\ RangeSum(fn_arg.data, fn_arg.room_width - fn_call.item_width, fn_call.item_width)
          < RangeSum(fn_arg.data, fn_call.result, fn_call.item_width)

\* the positions of a list of (position, score)
PositionsOf(result) == { result[j][1] : j \in DOMAIN result }

\* C6: find_top_k_positions(w, k), w < room_width, k >= 1, returns exactly
\* min(k, room_width - w + 1) pairs (position, score); the positions are
\* distinct positions of 0 .. room_width - w, each score is the window sum of
\* its position, the scores do not increase along the list, and no position
\* left out has a window sum above that of a position returned.
C6_TopKPositions ==
    (Called("find_top_k_positions") /\ fn_call.item_width < fn_arg.room_width) =>
        LET w == fn_call.item_width
            result == fn_call.result
            positions == 0 .. (fn_arg.room_width - w)
        IN  /\ Len(result) = Min(fn_call.k, fn_arg.room_width - w + 1)
            /\ Cardinality(PositionsOf(result)) = Len(result)
            /\ \A j \in DOMAIN result :
                  /\ result[j][1] \in positions
                  /\ result[j][2] = RangeSum(fn_arg.data, result[j][1], w)
            /\ \A i, j \in DOMAIN result : i < j => result[i][2] >= result[j][2]
            /\ \A q \in positions \ PositionsOf(result) :
                  \A j \in DOMAIN result : RangeSum(fn_arg.data, q, w) <= result[j][2]

\* fewer positions were asked for than there are; the list has two different
\* scores, a position was left out, and another one with the score of the
\* last of the list was left out too
C6_Witness ==
    /\ Called("find_top_k_positions")
    /\ fn_call.item_width < fn_arg.room_width
    /\ fn_call.k = 2
    /\ Len(fn_call.result) = 2
    /\ fn_call.result[1][2] > fn_call.result[2][2]
    /\ \E q \in (0 .. (fn_arg.room_width - fn_call.item_width)) \ PositionsOf(fn_call.result) :
          RangeSum(fn_arg.data, q, fn_call.item_width) = fn_call.result[2][2]
    /\ \E q \in (0 .. (fn_arg.room_width - fn_call.item_width)) \ PositionsOf(fn_call.result) :
          RangeSum(fn_arg.data, q, fn_call.item_width) < fn_call.result[2][2]

\* --------------------------------------------------- the calls of solve
\* what the caller of solve gets
ResultOf(call) == [volumes |-> call.volumes, debug |-> call.debug]

\* C8: the result of a call whose beam was emptied differs from the result of
\* every call of an empty wishlist on the same solver, whatever calls came
\* before.
C8_EmptiedDistinguishable ==
    \A i, j \in DOMAIN returned :
        (returned[i].emptied /\ returned[j].wishlist = <<>>) =>
            ResultOf(returned[i]) # ResultOf(returned[j])

\* C12: mark_occupied(start, end, include_door_swing = True, swing_cm, penalty)
\* sets hard_mask to 1 on exactly the cells of [start, end) that are on the
\* wall and leaves the other hard cells as they were, and adds penalty to
\* soft_mask on exactly the cells of [start - swing_cm, end + swing_cm) that
\* are on the wall.
C12_MarkOccupiedExact ==
    (Called("mark_occupied") /\ fn_call.include_door_swing) =>
        \A c \in Cells(fn_arg.room_width) :
            /\ fn_call.result.hard_mask[c] =
                  IF fn_call.start_cm <= c /\ c < fn_call.end_cm
                  THEN 1 ELSE fn_arg.hard_mask[c]
            /\ fn_call.result.soft_mask[c] =
                  IF fn_call.start_cm - fn_call.door_swing_cm <= c
                     /\ c < fn_call.end_cm + fn_call.door_swing_cm
                  THEN fn_arg.soft_mask[c] + fn_call.door_swing_penalty
                  ELSE fn_arg.soft_mask[c]
\* C13: the dynamic field of the list A + B is, cell by cell, the sum of the
\* dynamic field of A and the dynamic field of B, and it is the same in every
\* order of the emitters.
C13_DynamicFieldsAdditive ==
    Called("compute_dynamic_fields") =>
        /\ \A c \in Cells(fn_arg.room_width) :
              fn_call.result.data[c] = fn_call.result_a.data[c] + fn_call.result_b.data[c]
        /\ fn_call.result_reordered.data = fn_call.result.data

\* a list cut into two parts whose fields are different and not zero, taken
\* in another order than the one of the list
C13_Witness ==
    /\ Called("compute_dynamic_fields")
    /\ fn_call.a # <<>>
    /\ fn_call.b # <<>>
    /\ \E i \in DOMAIN fn_call.order : fn_call.order[i] # i
    /\ fn_call.result_a.data # fn_call.result_b.data
    /\ \E c \in Cells(fn_arg.room_width) : fn_call.result_a.data[c] # 0
    /\ \E c \in Cells(fn_arg.room_width) : fn_call.result_b.data[c] # 0
\* ------------------------------------------------- the order of the anchors
\* the place of a type in the order sink, stove, fridge, pantry, oven_tower
PriorityClass(item_type) ==
    CASE item_type \in {"sink_cabinet", "sink"} -> 1
      [] item_type \in {"stove_cabinet", "stove"} -> 2
      [] item_type = "fridge" -> 3
      [] item_type = "pantry" -> 4
      [] item_type = "oven_tower" -> 5
      [] OTHER -> 6

TypeAndWidth(item_type, width) == [type |-> item_type, width |-> width]

\* the anchors of a solution, committed and still to come, as type and width
CommittedOf(solution) ==
    [i \in 1 .. Len(solution.placements) |->
        TypeAndWidth(solution.placements[i].item_type, solution.placements[i].width)] \o <<>>

ToCome == [i \in 1 .. Len(anchors) |-> TypeAndWidth(anchors[i].type, item_width_of(anchors[i]))] \o <<>>

WishlistAnchors ==
    LET a == SelectSeq(wishlist, IsAnchor)
    IN  [i \in 1 .. Len(a) |-> TypeAndWidth(a[i].type, item_width_of(a[i]))] \o <<>>

OfType(seq, item_type) == SelectSeq(seq, LAMBDA e : e.type = item_type)

\* C15: in the loop over the anchors, the placements of every solution of the
\* beam, followed by the anchors still to come, are the anchors of the wishlist
\* in the order sink, stove, fridge, pantry, oven_tower, with the anchors of one
\* type in their wishlist order; every solution holds the same number of them,
\* one for each anchor taken so far.
C15_AnchorsInPriorityOrder ==
    pc = "anchors" =>
        \A s \in Solutions :
            /\ Len(s.placements) + Len(anchors) = Len(WishlistAnchors)
            /\ \A i, j \in 1 .. Len(WishlistAnchors) :
                  i < j => PriorityClass((CommittedOf(s) \o ToCome)[i].type)
                             <= PriorityClass((CommittedOf(s) \o ToCome)[j].type)
            /\ \A t \in ANCHOR_TYPES :
                  OfType(CommittedOf(s) \o ToCome, t) = OfType(WishlistAnchors, t)

\* a solution of two anchors or more, of a wishlist that names an anchor after
\* another one that the order puts later, and two anchors of one type
C15_Witness ==
    /\ pc = "anchors"
    /\ \E s \in Solutions : Len(s.placements) >= 2
    /\ \E i, j \in 1 .. Len(WishlistAnchors) :
          i < j /\ PriorityClass(WishlistAnchors[i].type) > PriorityClass(WishlistAnchors[j].type)
    /\ \E i, j \in 1 .. Len(WishlistAnchors) :
          /\ i < j
          /\ WishlistAnchors[i].type = WishlistAnchors[j].type
          /\ WishlistAnchors[i].width > WishlistAnchors[j].width
\* ------------------------------------------------------------ the fillers
\* the sum of the widths of the first n volumes
RECURSIVE WidthSum(_, _)
WidthSum(volumes, n) == IF n = 0 THEN 0 ELSE volumes[n].width + WidthSum(volumes, n - 1)

\* the largest of 60, 45, 30 that is at most gap, 0 when none is
LargestFitting(gap) ==
    IF \E w \in {60, 45, 30} : w <= gap
    THEN CHOOSE w \in {60, 45, 30} : w <= gap /\ \A u \in {60, 45, 30} : u <= gap => u <= w
    ELSE 0

\* C17: the volumes of _fill_range(start, end) lie end to end from start, every
\* cabinet is as wide as the largest of 60, 45, 30 that fits in what is left of
\* the range at its place, what is left under 30 is one 'filler' volume of that
\* width, and the widths sum to end - start.
C17_FillRangeLadder ==
    Called("_fill_range") =>
        /\ \A i \in DOMAIN fn_call.result :
              /\ fn_call.result[i].x = fn_arg.start + WidthSum(fn_call.result, i - 1)
              /\ IF fn_call.result[i].function = "filler"
                 THEN /\ i = Len(fn_call.result)
                      /\ fn_call.result[i].width = fn_arg.end - fn_call.result[i].x
                      /\ 0 < fn_call.result[i].width
                      /\ fn_call.result[i].width < 30
                 ELSE /\ fn_call.result[i].width = LargestFitting(fn_arg.end - fn_call.result[i].x)
                      /\ fn_call.result[i].width > 0
        /\ WidthSum(fn_call.result, Len(fn_call.result)) = fn_arg.end - fn_arg.start

\* a range filled with a cabinet of 60, a narrower cabinet and a filler panel
C17_Witness ==
    /\ Called("_fill_range")
    /\ fn_arg.start > 0
    /\ \E i, j, k \in DOMAIN fn_call.result :
          /\ fn_call.result[i].width = 60
          /\ fn_call.result[j].width \in {45, 30}
          /\ fn_call.result[k].function = "filler"
\* the cells of the wall under a volume
Covered(volumes) ==
    UNION { volumes[i].x .. (volumes[i].x + volumes[i].width - 1) : i \in DOMAIN volumes }

HasAnchor(volumes) == \E i \in DOMAIN volumes : volumes[i].function \in ANCHOR_TYPES

\* C16: after a solve with fillers that has placed an anchor, no run of 30
\* cells or more of [0, room_width) lies outside the volumes returned.
C16_NoFreeSpan ==
    \A n \in DOMAIN returned :
        (~returned[n].skip_fillers /\ HasAnchor(returned[n].volumes)) =>
            \A s \in 0 .. (room.width - 30) :
                \E c \in s .. (s + 29) : c \in Covered(returned[n].volumes)
\* C18: the volumes returned by a solve hold at most one volume of function
\* 'dishwasher'.
C18_OneDishwasher ==
    \A n \in DOMAIN returned :
        Cardinality({ i \in DOMAIN returned[n].volumes :
                        returned[n].volumes[i].function = "dishwasher" }) <= 1
\* ------------------------------------------------------ the L-shape solve
\* the solve of LShapeHeatmapSolver has returned
LSolved == Called("LShapeHeatmapSolver.solve") /\ fn_call.result # <<>>

LResult == fn_call.result[1]

\* the volumes are the placements, one volume for each placement
SamePlacements(volumes, placements) ==
    /\ Len(volumes) = Len(placements)
    /\ \A i \in DOMAIN placements :
          \E j \in DOMAIN volumes :
              /\ volumes[j].x = placements[i].position
              /\ volumes[j].width = placements[i].width
              /\ volumes[j].function = placements[i].item_type

\* C19: a solve with skip_fillers that finds a solution returns the anchor
\* placements of a solution of the highest score and nothing else, no
\* dishwasher, drawer_cabinet or filler; in the L-shape solve arm A is solved
\* with fillers and arm B without, so every volume of arm B is an anchor.
C19_SkipFillersAnchorsOnly ==
    [][ /\ (pc = "anchors" /\ pc' = "idle" /\ skip_fillers /\ beam # <<>>) =>
              /\ \E s \in Solutions :
                    /\ \A t \in Solutions : t.total_score <= s.total_score
                    /\ SamePlacements(Last(returned').volumes, s.placements)
              /\ \A j \in DOMAIN Last(returned').volumes :
                    Last(returned').volumes[j].function
                        \notin {"dishwasher", "drawer_cabinet", "filler"}
        /\ LSolved' =>
              /\ ~returned'[1].skip_fillers
              /\ returned'[2].skip_fillers
              /\ \A j \in DOMAIN LResult'.arm_b.volumes :
                    LResult'.arm_b.volumes[j].function \in ANCHOR_TYPES
      ]_vars

\* an L-shape solve with fillers in the wishlist whose arm B holds anchors and
\* a free span of more than 30, and whose arm A holds a filler cabinet
C19_Witness ==
    /\ LSolved
    /\ \E j \in DOMAIN LResult.arm_a.volumes :
          LResult.arm_a.volumes[j].function = "drawer_cabinet"
    /\ LResult.arm_b.volumes # <<>>
    /\ LResult.arm_b.volumes[1].z - fn_arg.corner_size > 30
    /\ \E j \in DOMAIN fn_call.arm_b_items : fn_call.arm_b_items[j].type \in FILLER_TYPES

\* C20: the corner of a blind, diagonal, carousel solver is 65, 87, 90 wide,
\* the solver of arm A is built over a wall of room_width - corner_size and
\* the solver of arm B over a wall of wall_b_length - corner_size: 335 and 235
\* for a blind corner in a room of 400 with a wall B of 300.
C20_CornerAndArms ==
    /\ fn_arg.corner_type = "blind" => fn_arg.corner_size = 65
    /\ fn_arg.corner_type = "diagonal" => fn_arg.corner_size = 87
    /\ fn_arg.corner_type = "carousel" => fn_arg.corner_size = 90
    /\ fn_arg._arm_a_solver.room.width = fn_arg.room.width - fn_arg.corner_size
    /\ fn_arg.room.wall_b_length # 0 =>
          fn_arg._arm_b_solver.room.width = fn_arg.room.wall_b_length - fn_arg.corner_size
    /\ (fn_arg.corner_type = "blind" /\ fn_arg.room.width = 400
          /\ fn_arg.room.wall_b_length = 300) =>
          /\ fn_arg._arm_a_solver.room.width = 335
          /\ fn_arg._arm_b_solver.room.width = 235
    /\ (pc = "anchors" /\ ~skip_fillers) => room = fn_arg._arm_a_solver.room
    /\ (pc = "anchors" /\ skip_fillers) => room = fn_arg._arm_b_solver.room

\* the solve of arm B runs on its wall of 235, with a blind corner
C20_Witness ==
    /\ fn_arg.corner_type = "blind"
    /\ fn_arg.room.wall_b_length = 300
    /\ pc = "anchors"
    /\ skip_fillers
    /\ room.width = 235
    /\ \E i \in DOMAIN beam : beam[i].placements # <<>>
\* ------------------------------------------------- the objects of a solve
\* C11: the turn of the loop of _expand_beam that makes a new solution out of
\* a solution of the beam and a candidate leaves that solution as it was, its
\* placements, total_score, hard and soft mask and emitters, and so every
\* other solution of the beam and every solution made before in the call; the
\* new solution holds the placements of its parent and the candidate.
C11_BranchLeavesOthers ==
    [][ (pc = "branch" /\ Len(refs'.new_solutions) = Len(refs.new_solutions) + 1) =>
            /\ \A j \in DOMAIN refs.beam :
                  solution_at(heap', refs.beam[j]) = solution_at(heap, refs.beam[j])
            /\ \A j \in DOMAIN refs.new_solutions :
                  /\ refs'.new_solutions[j] = refs.new_solutions[j]
                  /\ solution_at(heap', refs.new_solutions[j])
                        = solution_at(heap, refs.new_solutions[j])
            /\ solution_at(heap', Last(refs'.new_solutions)).placements
                  = Append(solution_at(heap, refs.beam[refs.solution]).placements,
                           Head(refs.candidates))
      ]_vars

\* a second solution made out of a parent that holds a placement already,
\* with another solution made before it in the call
C11_Witness ==
    /\ pc = "branch"
    /\ Len(refs.new_solutions) >= 2
    /\ Len(refs.beam) >= 2
    /\ solution_at(heap, refs.beam[refs.solution]).placements # <<>>

\* the beams that a new solver may hold after the first n of the anchors
RECURSIVE FreshBeams(_, _, _, _, _, _)
FreshBeams(layers, room_width, k, beam_width, sorted, n) ==
    IF n = 0 THEN { <<initial_solution(room_width)>> }
    ELSE UNION { { [j \in 1 .. Len(prune(children, beam_width)) |->
                      prune(children, beam_width)[j].solution] \o <<>> :
                   children \in new_solutions(layers, room_width, k, bm, Len(bm), sorted[n]) } :
                 bm \in FreshBeams(layers, room_width, k, beam_width, sorted, n - 1) }

\* the volumes that the first solve of a new solver over the room may return
FreshVolumes(wl, skip) ==
    { IF bm = <<>> THEN <<>>
      ELSE solve_volumes(room.width, bm, SelectSeq(wl, IsFiller), skip) :
        bm \in FreshBeams(make_static_layers(room), room.width, CANDIDATES_PER_ITEM,
                          BEAM_WIDTH, sorted_anchors(wl), Len(sorted_anchors(wl))) }

\* C14: whatever calls of solve came before on the solver, the volumes that a
\* call returns are volumes that a new solver over the same room returns for
\* the same wishlist and skip_fillers, and the static layers of the solver
\* are at every moment the layers that its construction has built. (A call is
\* looked at when it has returned, as the last of returned.)
C14_SolveIsPure ==
    /\ \A name \in DOMAIN refs.layers :
          grid_at(heap, refs.layers[name]) = make_static_layers(room)[name]
    /\ DOMAIN refs.layers = DOMAIN make_static_layers(room)
    /\ (pc = "idle" /\ returned # <<>>) =>
          Last(returned).volumes
              \in FreshVolumes(Last(returned).wishlist, Last(returned).skip_fillers)

\* a second call that places anchors after a first call that has placed two
C14_Witness ==
    /\ Len(returned) >= 2
    /\ Len(returned[1].volumes) >= 2
    /\ returned[2].volumes # <<>>
    /\ returned[2].wishlist # returned[1].wishlist
\* ------------------------------------------- the L-shape result, by arm
\* the volumes of an arm of the result are the volumes that the solve of the
\* arm returned, moved to the place of the arm
MovedFrom(volumes, local, corner_size, arm) ==
    /\ Len(volumes) = Len(local)
    /\ \A j \in DOMAIN volumes :
          /\ <<volumes[j].x, volumes[j].z>>
                = local_to_global_position(corner_size, arm, local[j].x)
          /\ volumes[j].width = local[j].width
          /\ volumes[j].function = local[j].function
          /\ global_to_arm_position(corner_size, volumes[j].x, volumes[j].z)
                = <<arm, local[j].x>>

\* C21: in the result of the L-shape solve a volume of arm A at the local
\* position p has x = p + corner_size and z = 0, a volume of arm B at p has
\* x = 0 and z = p + corner_size, width and function are those of the arm's
\* solve; every x of arm A and every z of arm B is corner_size or more, so
\* no volume starts inside the corner.
C21_ArmsInGlobalCoordinates ==
    LSolved =>
        /\ MovedFrom(LResult.arm_a.volumes, returned[1].volumes, fn_arg.corner_size, "A")
        /\ MovedFrom(LResult.arm_b.volumes, returned[2].volumes, fn_arg.corner_size, "B")
        /\ LResult.volumes = LResult.arm_a.volumes \o LResult.arm_b.volumes
        /\ \A j \in DOMAIN LResult.arm_a.volumes :
              /\ LResult.arm_a.volumes[j].x >= fn_arg.corner_size
              /\ LResult.arm_a.volumes[j].z = 0
        /\ \A j \in DOMAIN LResult.arm_b.volumes :
              /\ LResult.arm_b.volumes[j].z >= fn_arg.corner_size
              /\ LResult.arm_b.volumes[j].x = 0

\* an L-shape result with a volume at the start of arm A, next to the corner,
\* one further along arm A, and a volume on arm B
C21_Witness ==
    /\ LSolved
    /\ \E j \in DOMAIN LResult.arm_a.volumes :
          LResult.arm_a.volumes[j].x = fn_arg.corner_size
    /\ \E j \in DOMAIN LResult.arm_a.volumes :
          LResult.arm_a.volumes[j].x > fn_arg.corner_size
    /\ \E j \in DOMAIN LResult.arm_b.volumes :
          LResult.arm_b.volumes[j].z > fn_arg.corner_size
\* ------------------------------------------- the items of the two arms
\* a utility of the type on arm A (x >= corner_size) or on arm B (x < corner_size)
UtilityOn(lsolver, type, arm) ==
    \E j \in DOMAIN lsolver.room.utilities :
        /\ lsolver.room.utilities[j].type = type
        /\ (lsolver.room.utilities[j].x >= lsolver.corner_size) = (arm = "A")

InSeq(item, seq) == \E j \in DOMAIN seq : seq[j] = item

WET_ZONE == {"sink_cabinet", "sink", "dishwasher"}

HOT_ZONE == {"stove_cabinet", "stove"}

\* C22: _distribute_items gives a wet-zone item (sink_cabinet, sink,
\* dishwasher) to arm B only when there is a water utility on arm B and none
\* on arm A; with water on arm A, on both arms or on neither arm the item
\* goes to arm A.
C22_WetZoneToWater ==
    Called("LShapeHeatmapSolver.solve") =>
        \A i \in DOMAIN fn_call.wishlist :
            fn_call.wishlist[i].type \in WET_ZONE =>
                IF UtilityOn(fn_arg, "water", "B") /\ ~UtilityOn(fn_arg, "water", "A")
                THEN /\ InSeq(fn_call.wishlist[i], fn_call.arm_b_items)
                     /\ ~InSeq(fn_call.wishlist[i], fn_call.arm_a_items)
                ELSE /\ InSeq(fn_call.wishlist[i], fn_call.arm_a_items)
                     /\ ~InSeq(fn_call.wishlist[i], fn_call.arm_b_items)

\* the items of wl that are on the arm, in the order of wl
OnArm(wl, arm) == SelectSeq(wl, LAMBDA it : InSeq(it, arm))

\* the widths (60 without a width) of the items given to the arm before item i
UsedBefore(wl, i, arm) ==
    SumOver([j \in 1 .. (i - 1) |-> IF InSeq(wl[j], arm) THEN item_width_of(wl[j]) ELSE 0],
            1 .. (i - 1))

\* C23: _distribute_items gives every item of the wishlist to exactly one
\* arm and keeps the order of the wishlist on each arm; a monolith (fridge,
\* pantry, oven_tower) goes to arm B; a hot-zone item (stove_cabinet, stove)
\* goes to arm A unless there is gas on arm B and none on arm A; an item of
\* any other type that is not wet-zone goes to the arm whose length minus the
\* widths of the items given to it so far is larger.
C23_DistributeItems ==
    Called("_distribute_items") =>
        /\ fn_call.arm_a = OnArm(fn_call.wishlist, fn_call.arm_a)
        /\ fn_call.arm_b = OnArm(fn_call.wishlist, fn_call.arm_b)
        /\ \A i \in DOMAIN fn_call.wishlist :
              LET item == fn_call.wishlist[i]
                  on_a == InSeq(item, fn_call.arm_a)
                  on_b == InSeq(item, fn_call.arm_b)
                  left_a == fn_arg.arm_a_length - UsedBefore(fn_call.wishlist, i, fn_call.arm_a)
                  left_b == fn_arg.arm_b_length - UsedBefore(fn_call.wishlist, i, fn_call.arm_b)
              IN  /\ on_a # on_b
                  /\ item.type \in MONOLITH_TYPES => on_b
                  /\ item.type \in HOT_ZONE =>
                        (on_b <=> (UtilityOn(fn_arg, "gas", "B") /\ ~UtilityOn(fn_arg, "gas", "A")))
                  /\ item.type \notin (MONOLITH_TYPES \cup HOT_ZONE \cup WET_ZONE) =>
                        /\ left_a > left_b => on_a
                        /\ left_b > left_a => on_b

\* a call that gave a balanced item to arm B because arm A, the longer arm,
\* had less left, and a stove to arm B for the gas
C23_Witness ==
    /\ Called("_distribute_items")
    /\ fn_arg.arm_a_length > fn_arg.arm_b_length
    /\ \E i \in DOMAIN fn_call.wishlist :
          /\ fn_call.wishlist[i].type = "base_cabinet"
          /\ InSeq(fn_call.wishlist[i], fn_call.arm_b)
          /\ UsedBefore(fn_call.wishlist, i, fn_call.arm_a) > 0
    /\ \E i \in DOMAIN fn_call.wishlist :
          /\ fn_call.wishlist[i].type \in HOT_ZONE
          /\ InSeq(fn_call.wishlist[i], fn_call.arm_b)
    /\ \E i \in DOMAIN fn_call.wishlist :
          /\ fn_call.wishlist[i].type \in MONOLITH_TYPES
\* ------------------------------------------------- the combined field
\* the sum, at cell c, of the layers of names with the weights of the table
\* (in tenths) that are more than 0
RECURSIVE LayerSum(_, _, _, _)
LayerSum(layers, weights, names, c) ==
    IF names = {} THEN 0
    ELSE LET name == CHOOSE x \in names : TRUE
         IN  (IF name \in DOMAIN weights /\ weights[name] > 0
              THEN (layers[name].data[c] * weights[name]) \div 10 ELSE 0)
             + LayerSum(layers, weights, names \ {name}, c)

WeightTable(item_type) ==
    IF item_type \in DOMAIN LAYER_WEIGHTS THEN LAYER_WEIGHTS[item_type]
    ELSE LAYER_WEIGHTS["default"]

\* the field of the static layers with architecture taken arch_tenths / 10
\* times, then the dynamic fields and the masks of the call
CombinedWith(arch_tenths) ==
    minus_soft(
        apply_mask(
            with_dynamic(
                [data |-> Array([c \in Cells(room.width) |->
                             (static_layers["architecture"].data[c] * arch_tenths) \div 10
                             + LayerSum(static_layers, WeightTable(fn_call.item_type),
                                        DOMAIN static_layers \ {"architecture"}, c)]),
                 room_width |-> room.width],
                fn_call.emitters, fn_call.item_type),
            fn_call.mask.hard_mask, -10000 * Unit),
        fn_call.mask.soft_mask)

\* C24: in the combined field of _generate_candidates the architecture layer
\* is taken once (coefficient 1.0), every other static layer with the weight
\* of the table of the item type (the default table for a type without a
\* table), and a layer with a weight of 0 or less or without a weight is
\* left out.
C24_ArchitectureOnce ==
    Called("_generate_candidates") => fn_call.combined = CombinedWith(10)
\* ------------------------------------------ masks and emitters of a beam
\* C25: in every solution of the beam hard_mask is 1 on the cells under its
\* placements, [position, position + width), and 0 on every other cell, and
\* its emitters are, in the order of the placements, one emitter for each
\* placement with its position, width and item type.
C25_MaskAndEmittersFollowPlacements ==
    \A sol \in Solutions :
        /\ \A c \in Cells(room.width) :
              sol.collision_mask.hard_mask[c]
                  = IF \E i \in DOMAIN sol.placements : c \in Interval(sol.placements[i])
                    THEN 1 ELSE 0
        /\ DOMAIN sol.collision_mask.hard_mask = Cells(room.width)
        /\ Len(sol.emitters) = Len(sol.placements)
        /\ \A i \in DOMAIN sol.placements :
              /\ sol.emitters[i].position = sol.placements[i].position
              /\ sol.emitters[i].width = sol.placements[i].width
              /\ sol.emitters[i].item_type = sol.placements[i].item_type

\* a solution with two placements of different types, the second one placed
\* before the first on the wall
C25_Witness ==
    \E sol \in Solutions :
        /\ Len(sol.placements) = 2
        /\ sol.placements[1].item_type # sol.placements[2].item_type
        /\ sol.placements[2].position < sol.placements[1].position
\* ------------------------------------------- the pairs of an expansion
\* the solutions at the references, as a set of values
ValuesAt(h, solution_refs) ==
    { solution_at(h, solution_refs[j]) : j \in DOMAIN solution_refs }

\* the sets of children that the loops of _expand_beam, taken in the order of
\* the code, may make of the beam for the item
ChildrenInOrder(bm, item) ==
    { { children[j].solution : j \in DOMAIN children } :
        children \in new_solutions(static_layers, room.width, CANDIDATES_PER_ITEM,
                                   bm, Len(bm), item) }

AllPairsDone == pc = "expand" /\ refs.todo = {} /\ refs.pending = {} /\ refs.copies = {}

\* C26: whatever the order and the interleaving in which the (parent,
\* candidate) pairs of an expansion are taken, the children, once every pair
\* is done, are as a set the children that the loops make in the order of the
\* code, no solution of the beam has changed on the way, and the beam is cut
\* to BEAM_WIDTH only when every child exists.
C26_ChildrenWhateverTheOrder ==
    [][ /\ AllPairsDone =>
              ValuesAt(heap, refs.new_solutions)
                  \in ChildrenInOrder(solutions_at(heap, refs.beam), Head(anchors))
        /\ (pc = "expand" /\ pc' = "expand") =>
              solutions_at(heap', refs'.beam) = solutions_at(heap, refs.beam)
        /\ (pc = "expand" /\ refs'.beam # refs.beam) => AllPairsDone
      ]_vars

\* the children of two parents are all made, a child of the second parent
\* before a child of the first, and there are more of them than BEAM_WIDTH
C26_Witness ==
    /\ AllPairsDone
    /\ Len(refs.beam) = 2
    /\ Len(refs.new_solutions) > BEAM_WIDTH
    /\ \E i, j \in DOMAIN refs.new_solutions :
          /\ i < j
          /\ SubSeq(heap[heap[refs.new_solutions[i]].placements], 1, 1)
                = heap[heap[refs.beam[2]].placements]
          /\ SubSeq(heap[heap[refs.new_solutions[j]].placements], 1, 1)
                = heap[heap[refs.beam[1]].placements]

\* C27: for a monolith (fridge, pantry, oven_tower) the ergonomics layer in
\* the combined field of _generate_candidates is the layer of the monolith,
\* +80 in the first and the last 120 cm and a dip at the centre of the wall:
\* the field is the field of the static layers with that ergonomics layer.
C27_MonolithErgonomics ==
    (Called("_generate_candidates") /\ fn_call.item_type \in MONOLITH_TYPES) =>
        fn_call.combined
            = combined_field([static_layers EXCEPT
                                 !["ergonomics"] = create_ergonomics_layer(room, fn_call.item_type)],
                             room.width, fn_call.item_type, fn_call.mask, fn_call.emitters)
\* ------------------------------------------- items as wide as the room
\* the wishlist holds an anchor wider than the room
HasWideAnchor(wl) ==
    \E i \in DOMAIN wl : IsAnchor(wl[i]) /\ item_width_of(wl[i]) > room.width

\* C28: for an item as wide as the room or wider find_best_position returns
\* 0 and find_top_k_positions returns one pair, at position 0; a solve whose
\* wishlist holds an anchor wider than the room returns no volumes.
C28_WideItems ==
    /\ (Called("find_best_position") /\ fn_call.item_width >= fn_arg.room_width) =>
          fn_call.result = 0
    /\ (Called("find_top_k_positions") /\ fn_call.item_width >= fn_arg.room_width) =>
          /\ Len(fn_call.result) = 1
          /\ fn_call.result[1][1] = 0
    /\ \A n \in DOMAIN returned :
          HasWideAnchor(returned[n].wishlist) => returned[n].volumes = <<>>

\* a solve of an anchor that fits and an anchor wider than the room has
\* returned, and find_top_k_positions was asked for three positions of an
\* item wider than the room
C28_Witness ==
    /\ Called("find_top_k_positions")
    /\ fn_call.item_width > fn_arg.room_width
    /\ fn_call.k = 3
    /\ \E n \in DOMAIN returned :
          /\ HasWideAnchor(returned[n].wishlist)
          /\ \E i \in DOMAIN returned[n].wishlist :
                /\ IsAnchor(returned[n].wishlist[i])
                /\ item_width_of(returned[n].wishlist[i]) < room.width
\* ------------------------------------------- one volume for every anchor
\* the anchor items of a wishlist of one type and one requested width
AnchorItems(wl, item_type, width) ==
    { i \in DOMAIN wl : wl[i].type = item_type /\ item_width_of(wl[i]) = width }

\* the volumes of one function and one width
VolumesOf(volumes, function, width) ==
    { j \in DOMAIN volumes : volumes[j].function = function /\ volumes[j].width = width }

WidthsIn(wl, volumes) ==
    { item_width_of(wl[i]) : i \in DOMAIN wl } \cup { volumes[j].width : j \in DOMAIN volumes }

\* C29: a solve returns no volume at all, or for every anchor item of the
\* wishlist exactly one volume of its type and of the width requested for it:
\* as many anchor volumes of a type and a width as anchor items of them.
C29_OneVolumePerAnchor ==
    \A n \in DOMAIN returned :
        \/ returned[n].volumes = <<>>
        \/ \A t \in ANCHOR_TYPES :
              \A w \in WidthsIn(returned[n].wishlist, returned[n].volumes) :
                  Cardinality(VolumesOf(returned[n].volumes, t, w))
                      = Cardinality(AnchorItems(returned[n].wishlist, t, w))

\* a solve with fillers has returned two anchors of one type and one width
\* next to filler volumes
C29_Witness ==
    \E n \in DOMAIN returned :
        /\ ~returned[n].skip_fillers
        /\ \E t \in ANCHOR_TYPES :
              \E w \in WidthsIn(returned[n].wishlist, returned[n].volumes) :
                  /\ Cardinality(AnchorItems(returned[n].wishlist, t, w)) = 2
                  /\ Cardinality(VolumesOf(returned[n].volumes, t, w)) = 2
        /\ \E j \in DOMAIN returned[n].volumes :
              returned[n].volumes[j].function \notin ANCHOR_TYPES
\* ------------------------------------------------ the volumes on the wall
\* the cells of the wall under one volume
CellsOf(v) == v.x .. (v.x + v.width - 1)

\* C30: the volumes returned by a solve with fillers, anchors and dishwasher
\* and drawer cabinets and filler panels together, do not overlap each
\* other, lie inside [0, room_width), are wider than 0 and are sorted by x
\* ascending.
C30_VolumesOnTheWall ==
    \A n \in DOMAIN returned :
        ~returned[n].skip_fillers =>
            /\ \A i \in DOMAIN returned[n].volumes :
                  /\ returned[n].volumes[i].width > 0
                  /\ CellsOf(returned[n].volumes[i]) \subseteq 0 .. (room.width - 1)
            /\ \A i, j \in DOMAIN returned[n].volumes :
                  i < j =>
                      /\ returned[n].volumes[i].x <= returned[n].volumes[j].x
                      /\ CellsOf(returned[n].volumes[i])
                            \cap CellsOf(returned[n].volumes[j]) = {}

\* a solve with fillers has returned an anchor away from both ends of the
\* wall, a dishwasher, a drawer cabinet and a filler panel
C30_Witness ==
    \E n \in DOMAIN returned :
        /\ ~returned[n].skip_fillers
        /\ \E a, d, c, f \in DOMAIN returned[n].volumes :
              /\ returned[n].volumes[a].function \in ANCHOR_TYPES
              /\ returned[n].volumes[a].x > 0
              /\ returned[n].volumes[a].x + returned[n].volumes[a].width < room.width
              /\ returned[n].volumes[d].function = "dishwasher"
              /\ returned[n].volumes[c].function = "drawer_cabinet"
              /\ returned[n].volumes[f].function = "filler"

====
